---- MODULE Spec2Model ----
(***************************************************************************)
(* Model of the Boletin Oficial pipeline: the spreadsheet store            *)
(* (src/src/storage.py), the classifier (src/src/classifier.py) and the    *)
(* daily and weekly entry points (src/scrape_boletin_prefect.py,           *)
(* src/send_weekly_report_prefect.py) and the email service                *)
(* (src/src/email_service.py).                                             *)
(*                                                                         *)
(* Text cells that the code parses or formats (the publication date) are   *)
(* sequences of one-character strings, so that parsing and formatting are  *)
(* computed and not assumed.  Other text cells are plain strings.          *)
(***************************************************************************)
EXTENDS Integers, Sequences, FiniteSets, TLC

VARIABLES
    today,      \* ordinal of the current date (datetime.now() at midnight)
    file,       \* the spreadsheet at config.excel_path
    last,       \* the last completed direct call: its arguments and result
    appended,   \* the rows handed to save_regulations since the file was absent,
                \* while nothing else has written the file
    config,     \* the configuration of the deployment (environment, Config)
    daily,      \* the daily run (scrape_regulations_task): position and locals
    calls,      \* the remote LLM calls of the last operation, in order
    answers,    \* the answers the remote service gave to those calls
    weekly,     \* the weekly run (send_weekly_report_task): position and locals
    outbox,     \* the mails handed to the SMTP server and accepted by it
    runs        \* daily and weekly runs started so far

vars == <<today, file, last, appended, config, daily, calls, answers, weekly, outbox, runs>>

(***************************************************************************)
(* Bounds of the model.                                                    *)
(***************************************************************************)
MaxRows == 3        \* data rows of a store file drawn as input
MaxBatch == 2       \* rows of one frame handed to save_regulations directly
MaxDays == 3        \* largest value of the days argument
MaxNotices == 7     \* notices of one scraped listing
MaxFaulty == 2      \* largest listing whose requests are made to fail
MaxScraped == 1     \* notices of one listing in the pipeline
MaxRuns == 2        \* daily runs of the pipeline
MaxReports == 1     \* weekly runs of the pipeline
MaxTicks == 1       \* days that pass in the pipeline
MaxFrame == 4       \* rows of a frame handed to build_top_resolutions_payload
MaxTop == 4         \* largest top_n

(***************************************************************************)
(* Program constants.                                                      *)
(***************************************************************************)
RelevanceThreshold == 70    \* Config.relevance_threshold
TopRelevant == 5            \* .head(5) in classify_regulations
SummaryTop == 3             \* top_n=3 in generar_html_email_styled
ReportTop == 10             \* .head(10) in send_weekly_report_task
ScoreMin == 0               \* RelevanceClassification.relevance_score ge
ScoreMax == 100             \* RelevanceClassification.relevance_score le

(***************************************************************************)
(* Generic helpers on sequences.                                           *)
(***************************************************************************)
Max(a, b) == IF a >= b THEN a ELSE b
Min(a, b) == IF a <= b THEN a ELSE b

SeqsUpTo(S, n) == UNION {[1..k -> S] : k \in 0..n}

\* df[mask]: the elements satisfying a test, in order
RECURSIVE SelectIdx(_, _)
SelectIdx(s, keep) ==
    IF s = <<>> THEN <<>>
    ELSE (IF Len(s) \in keep THEN SelectIdx(SubSeq(s, 1, Len(s) - 1), keep) \o <<s[Len(s)]>>
          ELSE SelectIdx(SubSeq(s, 1, Len(s) - 1), keep))

\* .head(n)
HeadN(s, n) == SubSeq(s, 1, Min(n, Len(s)))

\* the number of indices of s whose element equals x
Count(s, x) == Cardinality({i \in DOMAIN s : s[i] = x})

\* s and t hold the same elements the same number of times
SameBag(s, t) ==
    /\ Len(s) = Len(t)
    /\ \A i \in DOMAIN s : Count(s, s[i]) = Count(t, s[i])

\* sort_values on a key column.  pandas sorts with numpy's quicksort, which
\* for the short frames of this program (16 elements or fewer) is an insertion
\* sort: rows with equal keys keep their order.  Elements are [k, v] pairs.
RECURSIVE InsertAsc(_, _)
InsertAsc(sorted, e) ==
    IF sorted = <<>> THEN <<e>>
    ELSE IF sorted[Len(sorted)].k <= e.k THEN Append(sorted, e)
    ELSE Append(InsertAsc(SubSeq(sorted, 1, Len(sorted) - 1), e), sorted[Len(sorted)])

RECURSIVE SortAsc(_)
SortAsc(s) ==
    IF s = <<>> THEN <<>>
    ELSE InsertAsc(SortAsc(SubSeq(s, 1, Len(s) - 1)), s[Len(s)])

\* ascending=False: pandas reverses, sorts ascending and reverses again
Reverse(s) == [i \in 1..Len(s) |-> s[Len(s) + 1 - i]]
SortDesc(s) == Reverse(SortAsc(Reverse(s)))

(***************************************************************************)
(* Dates.  A date cell is text: a sequence of characters.  Parsing is      *)
(* pd.to_datetime(format="%d/%m/%Y", errors="coerce"): one or two digits   *)
(* of day, "/", one or two digits of month, "/", four digits of year, and  *)
(* a day that exists in that month; anything else is NaT.  A parsed date   *)
(* is its proleptic Gregorian ordinal.  Formatting is strftime("%d/%m/%Y"):*)
(* two-digit day and month, four-digit year.                               *)
(***************************************************************************)
NaT == -1

DigitChars == <<"0", "1", "2", "3", "4", "5", "6", "7", "8", "9">>

IsDigit(c) == \E i \in 1..10 : DigitChars[i] = c

DigitVal(c) == (CHOOSE i \in 1..10 : DigitChars[i] = c) - 1

AllDigits(s) == \A i \in DOMAIN s : IsDigit(s[i])

RECURSIVE NumVal(_)
NumVal(s) ==
    IF s = <<>> THEN 0
    ELSE 10 * NumVal(SubSeq(s, 1, Len(s) - 1)) + DigitVal(s[Len(s)])

IsLeap(y) == (y % 4 = 0) /\ ((y % 100 # 0) \/ (y % 400 = 0))

DaysInMonth(y, m) ==
    IF m = 2 THEN (IF IsLeap(y) THEN 29 ELSE 28)
    ELSE IF m \in {4, 6, 9, 11} THEN 30 ELSE 31

RECURSIVE DaysBeforeMonth(_, _)
DaysBeforeMonth(y, m) ==
    IF m = 1 THEN 0 ELSE DaysBeforeMonth(y, m - 1) + DaysInMonth(y, m - 1)

DaysBeforeYear(y) ==
    (y - 1) * 365 + ((y - 1) \div 4) - ((y - 1) \div 100) + ((y - 1) \div 400)

YmdToOrd(y, m, d) == DaysBeforeYear(y) + DaysBeforeMonth(y, m) + d

\* the positions of "/" in a text
Slashes(s) == {i \in DOMAIN s : s[i] = "/"}

ParseDate(s) ==
    IF Cardinality(Slashes(s)) # 2 THEN NaT
    ELSE
        LET p1 == CHOOSE i \in Slashes(s) : \A j \in Slashes(s) : i <= j
            p2 == CHOOSE i \in Slashes(s) : \A j \in Slashes(s) : j <= i
            dd == SubSeq(s, 1, p1 - 1)
            mm == SubSeq(s, p1 + 1, p2 - 1)
            yy == SubSeq(s, p2 + 1, Len(s))
        IN  IF /\ Len(dd) \in {1, 2} /\ AllDigits(dd)
               /\ Len(mm) \in {1, 2} /\ AllDigits(mm)
               /\ Len(yy) = 4 /\ AllDigits(yy)
               /\ NumVal(yy) >= 1
               /\ NumVal(mm) \in 1..12
               /\ NumVal(dd) \in 1..DaysInMonth(NumVal(yy), NumVal(mm))
            THEN YmdToOrd(NumVal(yy), NumVal(mm), NumVal(dd))
            ELSE NaT

\* the year, month and day of an ordinal (datetime's ord2ymd)
OrdToYmd(ord) ==
    LET n0 == ord - 1
        n400 == n0 \div 146097
        r400 == n0 % 146097
        n100 == r400 \div 36524
        r100 == r400 % 36524
        n4 == r100 \div 1461
        r4 == r100 % 1461
        n1 == r4 \div 365
        r1 == r4 % 365
        year == n400 * 400 + 1 + n100 * 100 + n4 * 4 + n1
    IN  IF n1 = 4 \/ n100 = 4 THEN [y |-> year - 1, m |-> 12, d |-> 31]
        ELSE
            LET m0 == CHOOSE m \in 1..12 :
                        /\ DaysBeforeMonth(year, m) <= r1
                        /\ r1 < DaysBeforeMonth(year, m) + DaysInMonth(year, m)
            IN  [y |-> year, m |-> m0, d |-> r1 - DaysBeforeMonth(year, m0) + 1]

\* n written with exactly w digits, zero-padded
RECURSIVE Digits(_, _)
Digits(n, w) ==
    IF w = 0 THEN <<>>
    ELSE Append(Digits(n \div 10, w - 1), DigitChars[(n % 10) + 1])

FormatDate(ord) ==
    LET ymd == OrdToYmd(ord)
    IN  Digits(ymd.d, 2) \o <<"/">> \o Digits(ymd.m, 2) \o <<"/">> \o Digits(ymd.y, 4)


D_27_02 == <<"2", "7", "/", "0", "2", "/", "2", "0", "2", "4">>
D_29_02 == <<"2", "9", "/", "0", "2", "/", "2", "0", "2", "4">>
D_01_03 == <<"0", "1", "/", "0", "3", "/", "2", "0", "2", "4">>
D_02_03 == <<"0", "2", "/", "0", "3", "/", "2", "0", "2", "4">>
D_1_3 == <<"1", "/", "3", "/", "2", "0", "2", "4">>          \* not zero-padded
D_30_02 == <<"3", "0", "/", "0", "2", "/", "2", "0", "2", "4">>   \* no such day

Day0 == YmdToOrd(2024, 3, 1)

\* The date texts and the dates of the model, parsed and formatted once.
DateOrds == (Day0 - 7)..(Day0 + 7)

DateTexts == {D_27_02, D_29_02, D_01_03, D_02_03, D_1_3, D_30_02} \cup {FormatDate(o) : o \in DateOrds}

ParseTable == [s \in DateTexts |-> ParseDate(s)]

FormatTable == [o \in DateOrds |-> FormatDate(o)]

\* pd.to_datetime(..., format="%d/%m/%Y", errors="coerce") of one cell
ToDatetime(s) == IF s \in DateTexts THEN ParseTable[s] ELSE ParseDate(s)

\* .dt.strftime("%d/%m/%Y") of one date
Strftime(o) == IF o \in DateOrds THEN FormatTable[o] ELSE FormatDate(o)

(***************************************************************************)
(* The spreadsheet.  A file is absent, a workbook holding the sheet        *)
(* "resoluciones_relevantes" (state "xlsx", ws its rows from row 1), a     *)
(* workbook without that sheet, or something that is no workbook.  Row 1   *)
(* of a written sheet is the header; a data row holds the eight columns.   *)
(***************************************************************************)
NaN == "NaN"    \* what read_excel gives for an empty cell

HeaderRow == [header |-> TRUE]

IsHeader(r) == DOMAIN r = {"header"}

StoreColumns ==
    {"Fecha", "Titulo_Generado", "Categoria", "Relevancia", "Razonamiento",
     "Resumen", "Puntos_Clave", "Enlace"}

TextColumns == {"Titulo_Generado", "Categoria", "Razonamiento", "Resumen", "Puntos_Clave"}

NoFile == [state |-> "absent", ws |-> <<>>]

Workbook(ws) == [state |-> "xlsx", ws |-> ws]

\* a check of existence that always succeeds
ExistsAlways(f) == TRUE

Exists(f) == f.state # "absent"

\* df[[...eight columns...]].copy()
SelectColumns(df) == [i \in DOMAIN df |-> [c \in StoreColumns |-> df[i][c]]]

\* a cell as read back after to_excel wrote it: an empty text is an empty cell
WrittenCell(c, v) == IF c \in TextColumns /\ v = "" THEN NaN ELSE v

ToExcelRows(df) ==
    [i \in DOMAIN df |-> [c \in DOMAIN df[i] |-> WrittenCell(c, df[i][c])]]

\* to_excel(index=False, sheet_name=SHEET_NAME) into a new workbook
NewSheet(df) == Workbook(<<HeaderRow>> \o ToExcelRows(df))

\* to_excel(startrow=startrow, header=False) with if_sheet_exists="overlay":
\* the frame's rows go to the sheet rows startrow+1.. and replace what is there
Overlay(ws, startrow, rows) ==
    [i \in 1..Max(Len(ws), startrow + Len(rows)) |->
        IF i > startrow /\ i <= startrow + Len(rows) THEN rows[i - startrow]
        ELSE IF i <= Len(ws) THEN ws[i] ELSE [blank |-> TRUE]]

\* ws.max_row
MaxRow(ws) == Max(Len(ws), 1)

\* a start row one too low: the first appended row lands on the last used row
AppendStartRowLow(ws) == MaxRow(ws) - 1

\* startrow = ws.max_row
AppendStartRow(ws) == MaxRow(ws)

\* pd.read_excel(sheet_name=SHEET_NAME): row 1 names the columns
ReadExcel(f) == IF f.ws = <<>> THEN <<>> ELSE Tail(f.ws)

\* a reader that takes any file for a workbook
ReadableAlways(f) == TRUE

Readable(f) == f.state = "xlsx"

\* a test that takes no frame for empty
NeverEmpty(df) == FALSE

\* df.empty
Empty(df) == df = <<>>

\* save_regulations(df, config): the file afterwards, and whether it raised
\* a save that skips the rows whose link and date are stored already
SaveRegulationsOnce(df, f) ==
    LET fresh == SelectIdx(df, {i \in DOMAIN df :
                        ~\E j \in DOMAIN ReadExcel(f) :
                            /\ ReadExcel(f)[j].Enlace = df[i].Enlace
                            /\ ReadExcel(f)[j].Fecha = df[i].Fecha})
    IN  IF Empty(fresh) THEN [file |-> f, raised |-> FALSE]
        ELSE IF ~Exists(f) THEN [file |-> NewSheet(SelectColumns(fresh)), raised |-> FALSE]
        ELSE IF f.state = "garbage" THEN [file |-> f, raised |-> TRUE]
        ELSE IF f.state = "xlsx"
             THEN [file |-> Workbook(Overlay(f.ws, AppendStartRow(f.ws),
                                             ToExcelRows(SelectColumns(fresh)))),
                   raised |-> FALSE]
        ELSE [file |-> NewSheet(SelectColumns(fresh)), raised |-> FALSE]

SaveRegulations(df, f) ==
    IF Empty(df) THEN [file |-> f, raised |-> FALSE]
    ELSE IF ~Exists(f) THEN [file |-> NewSheet(SelectColumns(df)), raised |-> FALSE]
    ELSE IF f.state = "garbage" THEN [file |-> f, raised |-> TRUE]
    ELSE IF f.state = "xlsx"
         THEN [file |-> Workbook(Overlay(f.ws, AppendStartRow(f.ws),
                                         ToExcelRows(SelectColumns(df)))),
               raised |-> FALSE]
    ELSE [file |-> NewSheet(SelectColumns(df)), raised |-> FALSE]

\* load_regulations(excel_path)
LoadRegulations(f) ==
    IF ~Exists(f) THEN [ret |-> <<>>, raised |-> FALSE]
    ELSE IF ~Readable(f) THEN [ret |-> <<>>, raised |-> TRUE]
    ELSE [ret |-> ReadExcel(f), raised |-> FALSE]

\* a window one day too long: timedelta(days=days)
WindowStartLong(end, days) == end - days

\* start_date = end_date - timedelta(days=days - 1)
WindowStart(end, days) == end - (days - 1)

\* mask: the rows whose date lies in [start_date, end_date]
InWindow(ord, tdy, days) == ord >= WindowStart(tdy, days) /\ ord <= tdy

\* df.dropna(subset=["Fecha Publicación"]) after the conversion of the column
DropNaT(df) == SelectIdx(df, {i \in DOMAIN df : ToDatetime(df[i].Fecha) # NaT})

MaskIdx(df, tdy, days) == {i \in DOMAIN df : InWindow(ToDatetime(df[i].Fecha), tdy, days)}

\* filtered["Fecha Publicación"].dt.strftime("%d/%m/%Y"): the returned rows
\* a formatting of the returned rows that leaves the time of day in
FormatReturnedWithTime(df) ==
    [i \in DOMAIN df |->
        [df[i] EXCEPT !.Fecha = Strftime(ToDatetime(df[i].Fecha))
                                   \o <<" ", "0", "0", ":", "0", "0">>]]

FormatReturned(df) ==
    [i \in DOMAIN df |-> [df[i] EXCEPT !.Fecha = Strftime(ToDatetime(df[i].Fecha))]]

\* the kept rows written month first, strftime("%m/%d/%Y")
FormatArchivedMonthFirst(df) ==
    [i \in DOMAIN df |->
        [df[i] EXCEPT !.Fecha =
            LET t == Strftime(ToDatetime(df[i].Fecha))
            IN  SubSeq(t, 4, 5) \o <<"/">> \o SubSeq(t, 1, 2) \o SubSeq(t, 6, 10)]]

\* updated_df["Fecha Publicación"].dt.strftime("%d/%m/%Y"): the rows kept
FormatArchived(df) ==
    [i \in DOMAIN df |-> [df[i] EXCEPT !.Fecha = Strftime(ToDatetime(df[i].Fecha))]]

\* .sort_values(by="Fecha Publicación", ascending=True)
SortByDate(df) ==
    LET keyed == [i \in DOMAIN df |-> [k |-> ToDatetime(df[i].Fecha), v |-> df[i]]]
        sorted == SortAsc(keyed)
    IN  [i \in DOMAIN sorted |-> sorted[i].v]

\* archive_old and mask.sum() < len(df)
\* an archiving that rewrites the file whenever it is asked for
MustArchiveAlways(archive, nmask, ndf) == archive

MustArchive(archive, nmask, ndf) == archive /\ nmask < ndf

\* get_recent_regulations(config, days, archive_old): the rows returned, the
\* file afterwards, and whether it raised
GetRecentRegulations(f, tdy, days, archive) ==
    IF ~Exists(f) THEN [ret |-> <<>>, file |-> f, raised |-> FALSE]
    ELSE IF ~Readable(f) THEN [ret |-> <<>>, file |-> f, raised |-> TRUE]
    ELSE
        LET raw == ReadExcel(f)
        IN  IF raw = <<>> THEN [ret |-> raw, file |-> f, raised |-> FALSE]
            ELSE
                LET df == DropNaT(raw)
                    mask == MaskIdx(df, tdy, days)
                    inwin == SelectIdx(df, mask)
                    filtered == FormatReturned(SortByDate(inwin))
                IN  [ret |-> filtered,
                     file |-> IF MustArchive(archive, Cardinality(mask), Len(df))
                              THEN NewSheet(FormatArchived(inwin))
                              ELSE f,
                     raised |-> FALSE]


(***************************************************************************)
(* Inputs of the storage functions: date texts around the leap day of      *)
(* 2024, well formed or not, and rows of a store file made of them.        *)
(***************************************************************************)
Todays == {Day0}

StoreRow(fecha, rel, enlace) ==
    [Fecha |-> fecha, Titulo_Generado |-> "titulo", Categoria |-> "categoria",
     Relevancia |-> rel, Razonamiento |-> "razonamiento", Resumen |-> "resumen",
     Puntos_Clave |-> "k1; k2", Enlace |-> enlace]

SampleRows ==
    {StoreRow(D_27_02, 95, 1), StoreRow(D_29_02, 71, 2), StoreRow(D_01_03, 95, 3),
     StoreRow(D_1_3, 71, 4), StoreRow(D_02_03, 88, 5), StoreRow(D_30_02, 95, 6)}

\* frames handed to save_regulations directly
SaveRows == {StoreRow(D_29_02, 71, 2), StoreRow(D_01_03, 95, 3)}

StoreFiles ==
    {NoFile, [state |-> "garbage", ws |-> <<>>], [state |-> "nosheet", ws |-> <<>>]}
    \cup {NewSheet(rows) : rows \in SeqsUpTo(SampleRows, MaxRows)}

NoCall ==
    [op |-> "none", before |-> NoFile, df |-> <<>>, days |-> 0, archive |-> FALSE,
     ret |-> <<>>, raised |-> FALSE, repeat |-> FALSE]


(***************************************************************************)
(* The classifier (src/src/classifier.py).  The answer of a remote call is *)
(* an input: a parsed answer or an exception.  A parsed relevance score    *)
(* outside [ScoreMin, ScoreMax] fails the validation of the response model *)
(* inside the call, which is an exception of the call as well.             *)
(***************************************************************************)
RawScores == {70, 71, 95, 101}

ValidScores == {sc \in RawScores : ScoreMin <= sc /\ sc <= ScoreMax}

Parsed(sc) == [kind |-> "parsed", score |-> sc]

Raises == [kind |-> "raise", score |-> 0]

\* the answers to a classification request
ClsAnswers == {Parsed(sc) : sc \in RawScores} \cup {Raises}

\* the answers to a summary or a title request
EnrichAnswers == {"ok", "raise"}

\* RelevanceClassification: relevance_score ge=0, le=100
ValidClassification(a) == a.kind = "parsed" /\ ScoreMin <= a.score /\ a.score <= ScoreMax

\* a fallback that scores a failed request at the top of the scale
ClassifyTextFallbackTop(a) ==
    IF ValidClassification(a)
    THEN [relevance_score |-> a.score, reasoning |-> "razonamiento"]
    ELSE [relevance_score |-> ScoreMax, reasoning |-> "Error in processing"]

\* classify_text(client, text, model)
ClassifyText(a) ==
    IF ValidClassification(a)
    THEN [relevance_score |-> a.score, reasoning |-> "razonamiento"]
    ELSE [relevance_score |-> 0, reasoning |-> "Error in processing"]

\* a fallback that leaves the summary blank
SummarizeTextBlank(a) ==
    IF a = "ok" THEN [summary |-> "resumen", key_points |-> <<"k1", "k2">>]
    ELSE [summary |-> "", key_points |-> <<>>]

\* summarize_text(client, text, model)
SummarizeText(a) ==
    IF a = "ok" THEN [summary |-> "resumen", key_points |-> <<"k1", "k2">>]
    ELSE [summary |-> "Error en resumen", key_points |-> <<>>]

\* create_title(client, text, model); the texts are written without accents
CreateTitle(a) ==
    IF a = "ok" THEN [title |-> "titulo", category |-> "categoria"]
    ELSE [title |-> "Titulo no disponible", category |-> "Sin categoria"]

\* "; ".join(key_points), for the lists of the model
JoinKeyPoints(kps) ==
    IF kps = <<>> THEN "" ELSE IF Len(kps) = 1 THEN kps[1] ELSE "k1; k2"

\* a scraped notice: Título, Texto, Enlace, Fecha Publicación
Notice(id, fecha) == [Titulo |-> "aviso", Texto |-> id, Enlace |-> id, Fecha |-> fecha]

\* df["Relevancia"], df["Razonamiento"]: one classify_text call per row.
\* cls[i] is the answer to the request for row i.
Classified(df, cls) ==
    [i \in DOMAIN df |->
        [c \in DOMAIN df[i] \cup {"Relevancia", "Razonamiento"} |->
            IF c = "Relevancia" THEN ClassifyText(cls[i]).relevance_score
            ELSE IF c = "Razonamiento" THEN ClassifyText(cls[i]).reasoning
            ELSE df[i][c]]]

\* a filter that lets a score equal to the threshold through
AboveThresholdOrEqual(score, threshold) == score >= threshold

\* df["Relevancia"].astype(float) > config.relevance_threshold
AboveThreshold(score, threshold) == score > threshold

\* .sort_values(by="Relevancia", ascending=False)
SortByRelevanceDesc(df) ==
    LET keyed == [i \in DOMAIN df |-> [k |-> df[i].Relevancia, v |-> df[i]]]
        sorted == SortDesc(keyed)
    IN  [i \in DOMAIN sorted |-> sorted[i].v]

\* a truncation that keeps one row too many
TopOfOneMore(df) == HeadN(df, TopRelevant + 1)

\* .head(5)
TopOf(df) == HeadN(df, TopRelevant)

\* relevante_df: the rows above the threshold, best first, at most five
Relevant(df, threshold) ==
    TopOf(SortByRelevanceDesc(
        SelectIdx(df, {i \in DOMAIN df : AboveThreshold(df[i].Relevancia, threshold)})))

\* relevante_df["Resumen"], ["Puntos_Clave"]: one summarize_text call per row.
\* sum[id] is the answer to the request for the notice with text id.
Summarized(df, sum) ==
    [i \in DOMAIN df |->
        [c \in DOMAIN df[i] \cup {"Resumen", "Puntos_Clave"} |->
            IF c = "Resumen" THEN SummarizeText(sum[df[i].Texto]).summary
            ELSE IF c = "Puntos_Clave"
                 THEN JoinKeyPoints(SummarizeText(sum[df[i].Texto]).key_points)
            ELSE df[i][c]]]

\* relevante_df["Titulo_Generado"], ["Categoria"]: one create_title call per row
Titled(df, tit) ==
    [i \in DOMAIN df |->
        [c \in DOMAIN df[i] \cup {"Titulo_Generado", "Categoria"} |->
            IF c = "Titulo_Generado" THEN CreateTitle(tit[df[i].Texto]).title
            ELSE IF c = "Categoria" THEN CreateTitle(tit[df[i].Texto]).category
            ELSE df[i][c]]]

\* the remote calls of one .apply over a frame, in row order
CallsOf(fn, df) == [i \in DOMAIN df |-> [fn |-> fn, text |-> df[i].Texto]]

\* summaries requested for every classified row, before the filter
EnrichCallsBeforeFilter(df, rel) == CallsOf("summarize", df) \o CallsOf("title", df)

\* the summarize_text calls, then the create_title calls, on relevante_df
EnrichCalls(df, rel) == CallsOf("summarize", rel) \o CallsOf("title", rel)

\* classify_regulations(df, config): the frame returned and the remote calls
\* made, in order.  cls, sum and tit are the answers the remote service gives.
ClassifyRegulations(df, threshold, cls, sum, tit) ==
    IF df = <<>> THEN [ret |-> df, calls |-> <<>>]
    ELSE
        LET scored == Classified(df, cls)
            rel == Relevant(scored, threshold)
        IN  IF rel = <<>> THEN [ret |-> rel, calls |-> CallsOf("classify", df)]
            ELSE [ret |-> Titled(Summarized(rel, sum), tit),
                  calls |-> CallsOf("classify", df) \o EnrichCalls(scored, rel)]

(***************************************************************************)
(* Configuration (src/src/config.py).  A configuration is the environment  *)
(* read by load_config together with the fields of Config it leaves at     *)
(* their defaults.                                                         *)
(***************************************************************************)
\* texts of the environment that the code splits, strips or lowers are
\* sequences of one-character strings
T_false == <<"f", "a", "l", "s", "e">>
T_true == <<"t", "r", "u", "e">>
T_yes == <<"y", "e", "s">>
T_one == <<"1">>

\* a variable that is not set
Unset == <<"unset">>

\* os.getenv(name, default)
Getenv(v, default) == IF v = Unset THEN default ELSE v

UpperLetters == <<"A", "E", "F", "L", "N", "O", "R", "S", "T", "U", "Y">>
LowerLetters == <<"a", "e", "f", "l", "n", "o", "r", "s", "t", "u", "y">>

\* str.lower(), for the letters of the model
LowerChar(c) ==
    IF \E i \in DOMAIN UpperLetters : UpperLetters[i] = c
    THEN LowerLetters[CHOOSE i \in DOMAIN UpperLetters : UpperLetters[i] = c]
    ELSE c

Lower(s) == [i \in DOMAIN s |-> LowerChar(s[i])]

\* test_mode_env in ("true", "1", "yes")
TestModeOf(v) == Lower(Getenv(v, T_false)) \in {T_true, T_one, T_yes}

\* The environment, with each variable under the name of the Config field it
\* is read into, and relevance_threshold at its default.
GoodConfig ==
    [openai_api_key |-> "key", relevance_threshold |-> RelevanceThreshold,
     email_from |-> <<"f">>, email_to |-> <<"a", ",", "b">>, email_password |-> "pw",
     test_mode |-> T_false]

Thresholds == {0, RelevanceThreshold}

\* load_config(): raises when OPENAI_API_KEY is empty
LoadConfigRaises(env) == env.openai_api_key = ""

\* load_config(): the Config returned
LoadConfig(env) ==
    [env EXCEPT !.email_from = Getenv(@, <<>>), !.email_to = Getenv(@, <<>>),
                !.test_mode = TestModeOf(@)]

\* a validation that looks at the key only
ValidateConfigRaisesKeyOnly(cfg, require_email) == cfg.openai_api_key = ""

\* a validation that asks for EMAIL_TO in test mode as well
ValidateConfigRaisesStrict(cfg, require_email) ==
    \/ cfg.openai_api_key = ""
    \/ /\ require_email
       /\ \/ cfg.email_from = <<>>
          \/ cfg.email_password = ""
          \/ cfg.email_to = <<>>

\* validate_config(config, require_email): whether it raises
ValidateConfigRaises(cfg, require_email) ==
    \/ cfg.openai_api_key = ""
    \/ /\ require_email
       /\ \/ cfg.email_from = <<>>
          \/ cfg.email_password = ""
          \/ ~cfg.test_mode /\ cfg.email_to = <<>>

(***************************************************************************)
(* The scraper (src/src/scraper.py).  A listing is what the site answers:  *)
(* whether the listing page and its date could be read, the date of the    *)
(* edition, and for each notice whether its detail page could be read.     *)
(***************************************************************************)
Listing(ok, fecha, details) == [ok |-> ok, fecha |-> fecha, details |-> details]

\* the fecha of a listing page without the date markup
NoDateMarkup == -2

\* obtener_fecha_publicacion(soup): raises when the markup is missing
FechaPublicacionRaises(l) == l.fecha = NoDateMarkup

\* a scraper that gives up on the first detail page that fails
ScrapeRegulationsAllOrNothing(l) ==
    IF ~l.ok \/ FechaPublicacionRaises(l) THEN [df |-> <<>>, raised |-> TRUE]
    ELSE [df |-> IF \A i \in DOMAIN l.details : l.details[i]
                 THEN [i \in DOMAIN l.details |-> Notice(i, Strftime(l.fecha))]
                 ELSE <<>>,
          raised |-> FALSE]

\* scrape_regulations(): the frame returned, and whether it raised
ScrapeRegulations(l) ==
    IF ~l.ok \/ FechaPublicacionRaises(l) THEN [df |-> <<>>, raised |-> TRUE]
    ELSE [df |-> LET all == [i \in DOMAIN l.details |-> Notice(i, Strftime(l.fecha))]
                 IN  SelectIdx(all, {i \in DOMAIN l.details : l.details[i]}),
          raised |-> FALSE]

\* the listings of at most maxn notices; detail pages fail only in short ones
Listings(maxn, tdy) ==
    {Listing(FALSE, tdy, <<>>), Listing(TRUE, NoDateMarkup, <<>>)}
    \cup {Listing(TRUE, tdy, [i \in 1..n |-> TRUE]) : n \in 0..maxn}
    \cup {Listing(TRUE, tdy, d) : d \in SeqsUpTo(BOOLEAN, Min(maxn, MaxFaulty))}

(***************************************************************************)
(* The run records before any run.                                         *)
(***************************************************************************)
IdleWeekly ==
    [pc |-> "idle", days |-> 0, regs |-> <<>>, recipient |-> <<>>, archived |-> FALSE,
     rc |-> 0]

NoRuns == [daily |-> 0, weekly |-> 0]

(***************************************************************************)
(* The daily run (scrape_regulations_task).  daily.pc is the position:     *)
(* "idle" before the run, "scraped" after a non-empty scrape, "relevant"   *)
(* after classify_regulations returned rows, "done" after the return       *)
(* (daily.rc the value returned), "propagated" when load_config raised     *)
(* outside the try block.                                                  *)
(***************************************************************************)
IdleDaily == [pc |-> "idle", df |-> <<>>, rel |-> <<>>, rc |-> 0]

NoAnswers == [cls |-> <<>>, sum |-> <<>>, tit |-> <<>>, llm |-> "none"]

Returned(d, rc) == [d EXCEPT !.pc = "done", !.rc = rc]

\* the answers to the classification requests for a frame: every answer for a
\* short frame, valid scores only for a long one
ClsAnswersFor(df) ==
    IF Len(df) <= MaxFaulty THEN [DOMAIN df -> ClsAnswers]
    ELSE [DOMAIN df -> {Parsed(sc) : sc \in ValidScores}]

TextsOf(df) == {df[i].Texto : i \in DOMAIN df}

\* the answers to the summary or the title requests for the rows of rel: made
\* to fail when faults is set, for a short frame
EnrichAnswersFor(df, rel, faults) ==
    IF faults /\ Len(df) <= MaxFaulty THEN [TextsOf(rel) -> EnrichAnswers]
    ELSE [TextsOf(rel) -> {"ok"}]

\* load_config, validate_config, scrape_regulations, "if regulations.empty"
DailyScrape(maxn, maxruns) ==
    /\ daily.pc \in {"idle", "done", "propagated"}
    /\ runs.daily < maxruns
    /\ IF LoadConfigRaises(config)
       THEN daily' = [IdleDaily EXCEPT !.pc = "propagated"]
       ELSE IF ValidateConfigRaises(LoadConfig(config), FALSE)
       THEN daily' = Returned(IdleDaily, 1)
       ELSE \E l \in Listings(maxn, today) :
                LET r == ScrapeRegulations(l)
                IN  daily' = IF r.raised THEN Returned(IdleDaily, 1)
                             ELSE IF r.df = <<>> THEN Returned(IdleDaily, 0)
                             ELSE [IdleDaily EXCEPT !.pc = "scraped", !.df = r.df]
    /\ runs' = [runs EXCEPT !.daily = @ + 1]
    /\ UNCHANGED <<today, file, last, appended, config, calls, answers, weekly, outbox>>

\* a classification step that saves the relevant notices as it goes
DailyClassifyCheckpoint(faults) ==
    /\ daily.pc = "scraped"
    /\ \E cls \in ClsAnswersFor(daily.df) :
        LET rel == Relevant(Classified(daily.df, cls), config.relevance_threshold)
        IN  \E sum \in EnrichAnswersFor(daily.df, rel, faults),
               tit \in EnrichAnswersFor(daily.df, rel, faults) :
                LET r == ClassifyRegulations(daily.df, config.relevance_threshold,
                                             cls, sum, tit)
                IN  /\ calls' = r.calls
                    /\ answers' = [NoAnswers EXCEPT !.cls = cls, !.sum = sum, !.tit = tit]
                    /\ file' = SaveRegulations(r.ret, file).file
                    /\ daily' = IF r.ret = <<>> THEN [Returned(daily, 0) EXCEPT !.rel = r.ret]
                                ELSE [daily EXCEPT !.pc = "relevant", !.rel = r.ret]
    /\ UNCHANGED <<today, last, appended, config, weekly, outbox, runs>>

\* classify_regulations(regulations, config), "if relevant.empty"
DailyClassify(faults) ==
    /\ daily.pc = "scraped"
    /\ \E cls \in ClsAnswersFor(daily.df) :
        LET rel == Relevant(Classified(daily.df, cls), config.relevance_threshold)
        IN  \E sum \in EnrichAnswersFor(daily.df, rel, faults),
               tit \in EnrichAnswersFor(daily.df, rel, faults) :
                LET r == ClassifyRegulations(daily.df, config.relevance_threshold,
                                             cls, sum, tit)
                IN  /\ calls' = r.calls
                    /\ answers' = [NoAnswers EXCEPT !.cls = cls, !.sum = sum, !.tit = tit]
                    /\ daily' = IF r.ret = <<>> THEN [Returned(daily, 0) EXCEPT !.rel = r.ret]
                                ELSE [daily EXCEPT !.pc = "relevant", !.rel = r.ret]
    /\ UNCHANGED <<today, file, last, appended, config, weekly, outbox, runs>>

\* save_regulations(relevant, config), return 0
DailySave ==
    /\ daily.pc = "relevant"
    /\ LET r == SaveRegulations(daily.rel, file)
       IN  /\ file' = r.file
           /\ daily' = Returned(daily, IF r.raised THEN 1 ELSE 0)
    /\ UNCHANGED <<today, last, appended, config, calls, answers, weekly, outbox, runs>>

(***************************************************************************)
(* The email service (src/src/email_service.py).  An HTML text is the      *)
(* sequence of its blocks; the empty text is the empty sequence.           *)
(***************************************************************************)
\* the answers to the executive summary request: the content of the message
\* (a text, a text of spaces, an empty text) or an exception
LlmAnswers == {"text", " ", "", "raise"}

SmtpOutcomes == {"ok", "auth", "smtp"}

\* .strip(), for the contents of the model
Strip(e) == IF e = " " THEN "" ELSE e

\* x or default, for a text; the links and the scores of the model are never
\* empty, so that `or "#"` keeps every link
OrDefault(v, d) == IF v = "" THEN d ELSE v

\* .fillna(""), for a cell of column c
FillNa(c, v) == IF c \in TextColumns /\ v = NaN THEN "" ELSE v

PayloadColumns == {"Titulo_Generado", "Fecha", "Resumen", "Enlace", "Relevancia"}

\* A Relevancia cell that holds no number (a text such as "alta", an empty
\* cell): pd.to_numeric(errors="coerce") makes it NaN and fillna("") an empty
\* text; this one value stands for the cell before and after.
NotNumber == -1

IsNumber(v) == v # NotNumber

\* "Relevancia" in work_df.columns
HasRelevancia(df) == "Relevancia" \in DOMAIN df[1]

\* a sort that puts the lowest relevance first
SortByRelevanceAscending(df) ==
    LET keyed == [i \in DOMAIN df |-> [k |-> df[i].Relevancia, v |-> df[i]]]
        sorted == SortAsc(keyed)
    IN  [i \in DOMAIN sorted |-> sorted[i].v]

\* sort_values(by="Relevancia", ascending=False, na_position="last"): the
\* rows with a number by descending number, then the other rows in their order
SortByRelevanceNaLast(df) ==
    SortByRelevanceDesc(SelectIdx(df, {i \in DOMAIN df : IsNumber(df[i].Relevancia)}))
    \o SelectIdx(df, {i \in DOMAIN df : ~IsNumber(df[i].Relevancia)})

\* build_top_resolutions_payload(df, top_n), df a frame (not None)
BuildTopResolutionsPayload(df, top_n) ==
    IF df = <<>> THEN <<>>
    ELSE LET work == IF HasRelevancia(df) THEN SortByRelevanceNaLast(df) ELSE df
             top == HeadN(work, top_n)
             available_cols == PayloadColumns \cap DOMAIN df[1]
         IN  [i \in DOMAIN top |-> [c \in available_cols |-> FillNa(c, top[i][c])]]

\* build_top_resolutions_payload(df, top_n), df None or a frame
BuildTopResolutionsPayloadOf(none, df, top_n) ==
    IF none THEN <<>> ELSE BuildTopResolutionsPayload(df, top_n)

\* generar_resumen_ejecutivo_fallback(df, period_label, top_n)
GenerarResumenEjecutivoFallback(df, top_n) ==
    IF df = <<>> THEN <<>>
    ELSE LET top == BuildTopResolutionsPayload(df, top_n)
         IN  <<[block |-> "summary", by |-> "fallback", total |-> Len(df),
                shown |-> Min(top_n, Len(top)),
                items |-> [i \in DOMAIN top |->
                              [title |-> OrDefault(top[i].Titulo_Generado, "(Sin titulo)"),
                               date |-> top[i].Fecha,
                               link |-> top[i].Enlace]]]>>

\* a summary that takes a content of spaces for a text and gives up on an
\* exception
GenerarResumenEjecutivoLlmUnguarded(df, top_n, ans) ==
    IF df = <<>> THEN [html |-> <<>>, calls |-> <<>>]
    ELSE IF ans \notin {"raise", ""}
    THEN [html |-> <<[block |-> "summary", by |-> "llm", generated |-> ans]>>,
          calls |-> <<>>]
    ELSE [html |-> <<>>, calls |-> <<>>]

\* generar_resumen_ejecutivo_llm(df, client, ...): the text and the remote
\* calls made
GenerarResumenEjecutivoLlm(df, top_n, ans) ==
    IF df = <<>> THEN [html |-> <<>>, calls |-> <<>>]
    ELSE LET top == BuildTopResolutionsPayload(df, top_n)
             call == [fn |-> "executive_summary", total |-> Len(df), top_items |-> top]
         IN  IF ans # "raise" /\ Strip(ans) # ""
             THEN [html |-> <<[block |-> "summary", by |-> "llm", generated |-> Strip(ans)]>>,
                   calls |-> <<call>>]
             ELSE [html |-> GenerarResumenEjecutivoFallback(df, top_n), calls |-> <<call>>]

HeaderBlock == [block |-> "header"]

CloseBlock == [block |-> "close"]

RecordBlock(row) ==
    [block |-> "record", titulo |-> OrDefault(row.Titulo_Generado, "(Sin titulo)"),
     fecha |-> row.Fecha, resumen |-> row.Resumen, enlace |-> row.Enlace]

\* a rendering that lists the records by relevance, highest first
GenerarHtmlEmailStyledSorted(df, top_n, ans) ==
    LET llm == GenerarResumenEjecutivoLlm(df, top_n, ans)
        sorted == SortByRelevanceDesc(df)
    IN  [html |-> <<HeaderBlock>> \o llm.html
                  \o [i \in DOMAIN sorted |-> RecordBlock(sorted[i])] \o <<CloseBlock>>,
         calls |-> llm.calls]

\* generar_html_email_styled(df, config, period_label)
GenerarHtmlEmailStyled(df, top_n, ans) ==
    LET llm == GenerarResumenEjecutivoLlm(df, top_n, ans)
    IN  [html |-> <<HeaderBlock>> \o llm.html \o [i \in DOMAIN df |-> RecordBlock(df[i])]
                  \o <<CloseBlock>>,
         calls |-> llm.calls]

\* the index of the first "," of a text, 0 when it has none
RECURSIVE FirstComma(_, _)
FirstComma(s, i) ==
    IF i > Len(s) THEN 0 ELSE IF s[i] = "," THEN i ELSE FirstComma(s, i + 1)

\* str.split(",")
RECURSIVE SplitComma(_)
SplitComma(s) ==
    LET c == FirstComma(s, 1)
    IN  IF c = 0 THEN <<s>>
        ELSE <<SubSeq(s, 1, c - 1)>> \o SplitComma(SubSeq(s, c + 1, Len(s)))

\* str.strip(), for texts whose only whitespace is the space
RECURSIVE StripText(_)
StripText(s) ==
    IF s = <<>> THEN s
    ELSE IF s[1] = " " THEN StripText(Tail(s))
    ELSE IF s[Len(s)] = " " THEN StripText(SubSeq(s, 1, Len(s) - 1))
    ELSE s

\* a recipient list that ignores test mode
RecipientAlwaysList(cfg) ==
    LET stripped == [i \in DOMAIN SplitComma(cfg.email_to) |->
                        StripText(SplitComma(cfg.email_to)[i])]
    IN  SelectIdx(stripped, {i \in DOMAIN stripped : stripped[i] # <<>>})

\* recipient: config.email_from in test mode, else the non-blank entries of
\* EMAIL_TO, stripped
Recipient(cfg) ==
    IF cfg.test_mode THEN <<cfg.email_from>>
    ELSE LET stripped == [i \in DOMAIN SplitComma(cfg.email_to) |->
                             StripText(SplitComma(cfg.email_to)[i])]
         IN  SelectIdx(stripped, {i \in DOMAIN stripped : stripped[i] # <<>>})

\* smtp.send_message(msg): the server takes the message; smtplib refuses a
\* message that names no recipient (SMTPRecipientsRefused)
Accepted(recipient, smtp) == smtp = "ok" /\ recipient # <<>>

\* enviar_email(recipient, body, config): the message handed to the server
Mail(recipient, body, cfg) == [from |-> cfg.email_from, to |-> recipient, body |-> body]

(***************************************************************************)
(* The weekly run (send_weekly_report_task).  weekly.pc is the position:   *)
(* "idle" before the run, "report" once a non-empty frame was read, "done" *)
(* after the return, "propagated" when load_config raised.                 *)
(***************************************************************************)
\* load_config, validate_config, recipient, get_recent_regulations(archive_old
\* = True), "if regulations.empty", sort_values(...).head(10)
\* an archiving that is left out in test mode
ArchiveOldUnlessTest(cfg) == ~cfg.test_mode

\* archive_old=True, whatever the configuration
ArchiveOld(cfg) == TRUE

\* the run after get_recent_regulations(config, days, archive_old=True) gave r
WeeklyGotRecent(r, days) ==
    LET w == [IdleWeekly EXCEPT !.days = days,
                                !.recipient = Recipient(LoadConfig(config)),
                                !.archived = r.file # file]
    IN  /\ file' = r.file
        /\ weekly' = IF r.raised THEN [w EXCEPT !.pc = "done", !.rc = 1]
                     ELSE IF r.ret = <<>> THEN [w EXCEPT !.pc = "done"]
                     ELSE [w EXCEPT !.pc = "report",
                                    !.regs = HeadN(SortByRelevanceDesc(r.ret), ReportTop)]

WeeklyRead(maxruns) ==
    /\ weekly.pc \in {"idle", "done", "propagated"}
    /\ runs.weekly < maxruns
    /\ \E days \in {1, MaxDays} :
        IF LoadConfigRaises(config)
        THEN /\ weekly' = [IdleWeekly EXCEPT !.pc = "propagated", !.days = days]
             /\ file' = file
        ELSE IF ValidateConfigRaises(LoadConfig(config), TRUE)
        THEN /\ weekly' = [IdleWeekly EXCEPT !.pc = "done", !.days = days, !.rc = 1]
             /\ file' = file
        ELSE WeeklyGotRecent(GetRecentRegulations(file, today, days,
                                                  ArchiveOld(LoadConfig(config))), days)
    /\ runs' = [runs EXCEPT !.weekly = @ + 1]
    /\ UNCHANGED <<today, last, appended, config, daily, calls, answers, outbox>>

\* a send that puts the store back as it was before the runs when it fails
WeeklySendRollback ==
    /\ weekly.pc = "report"
    /\ \E ans \in LlmAnswers, smtp \in SmtpOutcomes :
        LET r == GenerarHtmlEmailStyled(weekly.regs, SummaryTop, ans)
        IN  /\ outbox' = IF Accepted(weekly.recipient, smtp)
                         THEN Append(outbox, Mail(weekly.recipient, r.html,
                                                  LoadConfig(config)))
                         ELSE outbox
            /\ file' = IF Accepted(weekly.recipient, smtp) THEN file ELSE last.before
            /\ weekly' = [weekly EXCEPT !.pc = "done",
                                        !.rc = IF Accepted(weekly.recipient, smtp) THEN 0
                                               ELSE 1]
    /\ UNCHANGED <<today, last, appended, config, daily, calls, answers, runs>>

\* generar_html_email_styled, enviar_email, return 0
WeeklySend ==
    /\ weekly.pc = "report"
    /\ \E ans \in LlmAnswers, smtp \in SmtpOutcomes :
        LET r == GenerarHtmlEmailStyled(weekly.regs, SummaryTop, ans)
        IN  /\ outbox' = IF Accepted(weekly.recipient, smtp)
                         THEN Append(outbox, Mail(weekly.recipient, r.html,
                                                  LoadConfig(config)))
                         ELSE outbox
            /\ weekly' = [weekly EXCEPT !.pc = "done",
                                        !.rc = IF Accepted(weekly.recipient, smtp) THEN 0
                                               ELSE 1]
    /\ UNCHANGED <<today, file, last, appended, config, daily, calls, answers, runs>>

\* the next day
Tick ==
    /\ today < Day0 + MaxTicks
    /\ today' = today + 1
    /\ UNCHANGED <<file, last, appended, config, daily, calls, answers, weekly, outbox, runs>>

(***************************************************************************)
(* One daily run on an absent store, over listings of up to MaxNotices     *)
(* notices.                                                                *)
(***************************************************************************)
InitDaily ==
    /\ today = Day0
    /\ file = NoFile
    /\ last = NoCall
    /\ appended = [pure |-> TRUE, rows |-> <<>>]
    /\ config \in {[GoodConfig EXCEPT !.openai_api_key = k, !.relevance_threshold = t] :
                      k \in {"", "key"}, t \in Thresholds}
    /\ daily = IdleDaily
    /\ calls = <<>>
    /\ answers = NoAnswers
    /\ weekly = IdleWeekly
    /\ outbox = <<>>
    /\ runs = NoRuns

NextDaily == DailyScrape(MaxNotices, 1) \/ DailyClassify(TRUE) \/ DailySave

SpecDaily == InitDaily /\ [][NextDaily]_vars

(***************************************************************************)
(* The pipeline: daily runs over short listings, weekly runs and the days  *)
(* passing, on a store that starts absent.  The daily run is scheduled at  *)
(* 08:00 and the weekly run at 09:00 on Mondays: a run starts, and the day *)
(* ends, when no other run is under way.                                   *)
(***************************************************************************)
DailyUnderWay == daily.pc \in {"scraped", "relevant"}

WeeklyUnderWay == weekly.pc = "report"

Init ==
    /\ today = Day0
    /\ file = NoFile
    /\ last = NoCall
    /\ appended = [pure |-> TRUE, rows |-> <<>>]
    /\ config \in {[GoodConfig EXCEPT !.relevance_threshold = t] : t \in Thresholds}
    /\ daily = IdleDaily
    /\ calls = <<>>
    /\ answers = NoAnswers
    /\ weekly = IdleWeekly
    /\ outbox = <<>>
    /\ runs = NoRuns

Next ==
    \/ ~WeeklyUnderWay /\ DailyScrape(MaxScraped, MaxRuns)
    \/ DailyClassify(FALSE)
    \/ DailySave
    \/ ~DailyUnderWay /\ WeeklyRead(MaxReports)
    \/ WeeklySend
    \/ ~DailyUnderWay /\ ~WeeklyUnderWay /\ Tick

Spec == Init /\ [][Next]_vars

(***************************************************************************)
(* The storage functions called on their own, as the tests call them.      *)
(***************************************************************************)
InitStore ==
    /\ today \in Todays
    /\ file \in StoreFiles
    /\ last = NoCall
    /\ appended = [pure |-> file = NoFile, rows |-> <<>>]
    /\ config = GoodConfig
    /\ daily = IdleDaily
    /\ calls = <<>>
    /\ answers = NoAnswers
    /\ weekly = IdleWeekly
    /\ outbox = <<>>
    /\ runs = NoRuns

CallSave ==
    \E df \in SeqsUpTo(SaveRows, MaxBatch) :
        LET r == SaveRegulations(df, file)
        IN  /\ Len(ReadExcel(file)) + Len(df) <= MaxRows
            /\ file' = r.file
            /\ last' = [op |-> "save", before |-> file, df |-> df, days |-> 0,
                        archive |-> FALSE, ret |-> <<>>, raised |-> r.raised,
                        repeat |-> FALSE]
            /\ appended' = [appended EXCEPT !.rows = IF appended.pure THEN @ \o df ELSE <<>>]
            /\ calls' = <<>>
            /\ answers' = NoAnswers
            /\ UNCHANGED <<today, config, daily, weekly, outbox, runs>>

\* the state after get_recent_regulations(config, days, archive_old) gave r
GetRecentCalled(r, days, archive) ==
    /\ file' = r.file
    /\ last' = [op |-> "get_recent", before |-> file, df |-> <<>>, days |-> days,
                archive |-> archive, ret |-> r.ret, raised |-> r.raised,
                repeat |-> /\ archive /\ last.op = "get_recent" /\ last.archive
                           /\ last.days = days /\ last.before # file]
    /\ appended' = IF appended.pure /\ r.file = file THEN appended
                   ELSE [pure |-> FALSE, rows |-> <<>>]
    /\ calls' = <<>>
    /\ answers' = NoAnswers
    /\ UNCHANGED <<today, config, daily, weekly, outbox, runs>>

\* the default of the parameter days
WeekDays == 7

CallGetRecentWeek ==
    \E archive \in BOOLEAN :
        GetRecentCalled(GetRecentRegulations(file, today, WeekDays, archive), WeekDays,
                        archive)

CallGetRecent ==
    \E days \in 1..MaxDays, archive \in BOOLEAN :
        GetRecentCalled(GetRecentRegulations(file, today, days, archive), days, archive)

CallLoad ==
    LET r == LoadRegulations(file)
    IN  /\ last' = [op |-> "load", before |-> file, df |-> <<>>, days |-> 0,
                    archive |-> FALSE, ret |-> r.ret, raised |-> r.raised, repeat |-> FALSE]
        /\ calls' = <<>>
        /\ answers' = NoAnswers
        /\ UNCHANGED <<today, file, appended, config, daily, weekly, outbox, runs>>

\* classify_regulations(df, config) on the empty frame and on frames of one notice
CallClassify ==
    \E df \in SeqsUpTo({Notice(1, Strftime(today))}, 1) :
        \E cls \in ClsAnswersFor(df) :
            LET rel == Relevant(Classified(df, cls), config.relevance_threshold)
            IN  \E sum \in EnrichAnswersFor(df, rel, TRUE),
                   tit \in EnrichAnswersFor(df, rel, TRUE) :
                    LET r == ClassifyRegulations(df, config.relevance_threshold,
                                                 cls, sum, tit)
                    IN  /\ last' = [op |-> "classify", before |-> file, df |-> df,
                                    days |-> 0, archive |-> FALSE, ret |-> r.ret,
                                    raised |-> FALSE, repeat |-> FALSE]
                        /\ calls' = r.calls
                        /\ answers' = [NoAnswers EXCEPT !.cls = cls, !.sum = sum, !.tit = tit]
                        /\ UNCHANGED <<today, file, appended, config, daily, weekly,
                                       outbox, runs>>

\* generar_html_email_styled(df, config) on the empty frame and on the frame
\* of the stored rows
CallRender ==
    \E df \in {<<>>, ReadExcel(file)}, ans \in LlmAnswers :
        LET r == GenerarHtmlEmailStyled(df, SummaryTop, ans)
        IN  /\ last' = [op |-> "render", before |-> file, df |-> df, days |-> 0,
                        archive |-> FALSE, ret |-> r.html, raised |-> FALSE,
                        repeat |-> FALSE]
            /\ calls' = r.calls
            /\ answers' = [NoAnswers EXCEPT !.llm = ans]
            /\ UNCHANGED <<today, file, appended, config, daily, weekly, outbox, runs>>

NextStore == CallSave \/ CallGetRecent \/ CallLoad \/ CallClassify \/ CallRender

SpecStore == InitStore /\ [][NextStore]_vars

\* saving and reading back with the default window
NextRoundTrip == CallSave \/ CallGetRecentWeek

SpecRoundTrip == InitStore /\ [][NextRoundTrip]_vars

(***************************************************************************)
(* get_recent_regulations(archive_old=True) step by step, next to another  *)
(* process that appends: the sheet is read (storage.py 103), the file is   *)
(* opened for writing by pd.ExcelWriter(mode="w"), which empties it, and   *)
(* the frame computed from the rows read is saved when the writer closes   *)
(* (storage.py 134-135).  The process may be killed between the steps.     *)
(***************************************************************************)
\* a file opened for writing in a process that kept the old one
OpenForWriteKeeps(f) == f

\* the file once pd.ExcelWriter(excel_path, mode="w") has opened it
OpenForWrite(f) == [state |-> "garbage", ws |-> <<>>]

\* a writer that saves the stored rows appended since the sheet was read too
RewrittenWithAppended(updated, rows) ==
    NewSheet(ReadExcel(updated) \o SelectColumns(rows))

\* the file once the writer has closed: the frame computed from the rows read
Rewritten(updated, rows) == updated

ArchiveCall(pc, before, days, ret, updated, raised) ==
    [op |-> "archive", pc |-> pc, before |-> before, days |-> days, ret |-> ret,
     updated |-> updated, raised |-> raised, opened |-> FALSE]

NoAppend == [at |-> "none", rows |-> <<>>]

InitArchive ==
    /\ today \in Todays
    /\ file \in StoreFiles
    /\ last = ArchiveCall("start", NoFile, 0, <<>>, NoFile, FALSE)
    /\ appended = NoAppend
    /\ config = GoodConfig
    /\ daily = IdleDaily
    /\ calls = <<>>
    /\ answers = NoAnswers
    /\ weekly = IdleWeekly
    /\ outbox = <<>>
    /\ runs = NoRuns

\* the call up to the test of line 130
ArchiveLoaded(r, days) ==
    /\ last' = ArchiveCall(IF r.raised \/ r.file = file THEN "returned" ELSE "loaded",
                           file, days, r.ret, r.file, r.raised)
    /\ UNCHANGED <<today, file, appended, config, daily, calls, answers, weekly, outbox,
                   runs>>

ArchiveLoad ==
    /\ last.pc = "start"
    /\ \E days \in 1..MaxDays :
          ArchiveLoaded(GetRecentRegulations(file, today, days, TRUE), days)

ArchiveOpen ==
    /\ last.pc = "loaded"
    /\ file' = OpenForWrite(file)
    /\ last' = [last EXCEPT !.pc = "opened", !.opened = TRUE]
    /\ UNCHANGED <<today, appended, config, daily, calls, answers, weekly, outbox, runs>>

ArchiveClose ==
    /\ last.pc = "opened"
    /\ file' = Rewritten(last.updated, appended.rows)
    /\ last' = [last EXCEPT !.pc = "returned"]
    /\ UNCHANGED <<today, appended, config, daily, calls, answers, weekly, outbox, runs>>

\* the process is killed
ArchiveCrash ==
    /\ last.pc \in {"loaded", "opened"}
    /\ last' = [last EXCEPT !.pc = "crashed"]
    /\ UNCHANGED <<today, file, appended, config, daily, calls, answers, weekly, outbox,
                   runs>>

\* save_regulations(df, config) in another process, once
SavedMeanwhile(r, df) ==
    /\ ~r.raised
    /\ file' = r.file
    /\ appended' = [at |-> last.pc, rows |-> df]
    /\ UNCHANGED <<today, last, config, daily, calls, answers, weekly, outbox, runs>>

SaveMeanwhile ==
    /\ appended = NoAppend
    /\ \E df \in SeqsUpTo(SaveRows, MaxBatch) \ {<<>>} :
          SavedMeanwhile(SaveRegulations(df, file), df)

NextArchive == ArchiveLoad \/ ArchiveOpen \/ ArchiveClose \/ ArchiveCrash \/ SaveMeanwhile

SpecArchive == InitArchive /\ [][NextArchive]_vars

(***************************************************************************)
(* One run of each flow under the orchestrator.  The tasks are declared    *)
(* with retries=2: the orchestrator executes a task again when the attempt *)
(* raised, and takes a returned value, 0 or 1, for the result of the run.  *)
(* runs counts the attempts.                                               *)
(***************************************************************************)
TaskRetries == 2

InitRetry ==
    /\ today = Day0
    /\ file \in {NoFile, [state |-> "garbage", ws |-> <<>>]}
    /\ last = NoCall
    /\ appended = [pure |-> TRUE, rows |-> <<>>]
    /\ config \in {[GoodConfig EXCEPT !.openai_api_key = k] : k \in {"", "key"}}
    /\ daily = IdleDaily
    /\ calls = <<>>
    /\ answers = NoAnswers
    /\ weekly = IdleWeekly
    /\ outbox = <<>>
    /\ runs = NoRuns

\* an attempt of scrape_regulations_task: the first, or one after an attempt that raised
DailyAttempt ==
    /\ daily.pc \in {"idle", "propagated"}
    /\ ~WeeklyUnderWay
    /\ DailyScrape(MaxScraped, 1 + TaskRetries)

\* an attempt of send_weekly_report_task: the first, or one after an attempt that raised
WeeklyAttempt ==
    /\ weekly.pc \in {"idle", "propagated"}
    /\ ~DailyUnderWay
    /\ WeeklyRead(1 + TaskRetries)

NextRetry ==
    DailyAttempt \/ DailyClassify(FALSE) \/ DailySave \/ WeeklyAttempt \/ WeeklySend

SpecRetry == InitRetry /\ [][NextRetry]_vars

(***************************************************************************)
(* Weekly runs, one after the other on the same day, over a store of any   *)
(* rows; last.before keeps the store as it was before the first run.       *)
(***************************************************************************)
InitRerun ==
    /\ today = Day0
    /\ file \in {NewSheet(rows) : rows \in SeqsUpTo(SampleRows, MaxRows)}
    /\ last = [NoCall EXCEPT !.before = file]
    /\ appended = [pure |-> FALSE, rows |-> <<>>]
    /\ config = GoodConfig
    /\ daily = IdleDaily
    /\ calls = <<>>
    /\ answers = NoAnswers
    /\ weekly = IdleWeekly
    /\ outbox = <<>>
    /\ runs = NoRuns

NextRerun == WeeklyRead(MaxRuns) \/ WeeklySend

SpecRerun == InitRerun /\ [][NextRerun]_vars


(***************************************************************************)
(* build_top_resolutions_payload called on its own: on None, on frames of  *)
(* up to MaxFrame rows with or without the Relevancia column, and on the   *)
(* frame of the tests, for top_n up to MaxTop.                             *)
(***************************************************************************)
PayloadScores == {71, 82, 95, NotNumber}

PayloadRow(id, rel) ==
    [Titulo_Generado |-> "titulo", Fecha |-> D_01_03, Resumen |-> "resumen",
     Enlace |-> id, Relevancia |-> rel]

\* the row without its Relevancia column
WithoutRelevancia(r) == [c \in DOMAIN r \ {"Relevancia"} |-> r[c]]

\* sample_regulations_df: scores 95, 88, 82, 76, 71
SampleFrame ==
    <<PayloadRow(1, 95), PayloadRow(2, 88), PayloadRow(3, 82), PayloadRow(4, 76),
      PayloadRow(5, 71)>>

PayloadFrames ==
    LET scored == {[i \in DOMAIN f |-> PayloadRow(i, f[i])] :
                      f \in SeqsUpTo(PayloadScores, MaxFrame)}
                  \cup {SampleFrame, Reverse(SampleFrame)}
    IN  scored \cup {[i \in DOMAIN f |-> WithoutRelevancia(f[i])] : f \in scored}

PayloadCall(op, none, df, top_n, ret) ==
    [op |-> op, none |-> none, df |-> df, top_n |-> top_n, ret |-> ret]

InitPayload ==
    /\ today = Day0
    /\ file = NoFile
    /\ last \in {PayloadCall("input", FALSE, df, n, <<>>) :
                    df \in PayloadFrames, n \in 0..MaxTop}
                \cup {PayloadCall("input", TRUE, <<>>, n, <<>>) : n \in 0..MaxTop}
    /\ appended = [pure |-> TRUE, rows |-> <<>>]
    /\ config = GoodConfig
    /\ daily = IdleDaily
    /\ calls = <<>>
    /\ answers = NoAnswers
    /\ weekly = IdleWeekly
    /\ outbox = <<>>
    /\ runs = NoRuns

CallPayload ==
    /\ last.op = "input"
    /\ last' = [last EXCEPT !.op = "payload",
                            !.ret = BuildTopResolutionsPayloadOf(last.none, last.df,
                                                                 last.top_n)]
    /\ UNCHANGED <<today, file, appended, config, daily, calls, answers, weekly, outbox,
                   runs>>

NextPayload == CallPayload

SpecPayload == InitPayload /\ [][NextPayload]_vars

(***************************************************************************)
(* validate_config on its own: the Config objects of the tests, and the    *)
(* call.                                                                   *)
(***************************************************************************)
Configs ==
    [openai_api_key : {"", "key"}, relevance_threshold : {RelevanceThreshold},
     email_from : {<<>>, <<"f">>}, email_to : {<<>>, <<"a">>, <<" ">>},
     email_password : {"", "pw"}, test_mode : BOOLEAN]

ConfigCall(op, cfg, require_email, raised) ==
    [op |-> op, cfg |-> cfg, require_email |-> require_email, raised |-> raised]

InitConfig ==
    /\ today = Day0
    /\ file = NoFile
    /\ last \in {ConfigCall("input", cfg, re, FALSE) : cfg \in Configs, re \in BOOLEAN}
    /\ appended = [pure |-> TRUE, rows |-> <<>>]
    /\ config = GoodConfig
    /\ daily = IdleDaily
    /\ calls = <<>>
    /\ answers = NoAnswers
    /\ weekly = IdleWeekly
    /\ outbox = <<>>
    /\ runs = NoRuns

CallValidate ==
    /\ last.op = "input"
    /\ last' = [last EXCEPT !.op = "validate",
                            !.raised = ValidateConfigRaises(last.cfg, last.require_email)]
    /\ UNCHANGED <<today, file, appended, config, daily, calls, answers, weekly, outbox,
                   runs>>

NextConfig == CallValidate

SpecConfig == InitConfig /\ [][NextConfig]_vars

(***************************************************************************)
(* scrape_regulations on its own: a listing page and its detail pages, and *)
(* the call.                                                               *)
(***************************************************************************)
MaxListed == 4

ScrapeListings ==
    {Listing(ok, fecha, d) : ok \in BOOLEAN, fecha \in {Day0 - 1, Day0, NoDateMarkup},
                             d \in SeqsUpTo(BOOLEAN, MaxListed)}

ScrapeCall(op, l, df, raised) == [op |-> op, listing |-> l, ret |-> df, raised |-> raised]

InitScrape ==
    /\ today = Day0
    /\ file = NoFile
    /\ last \in {ScrapeCall("input", l, <<>>, FALSE) : l \in ScrapeListings}
    /\ appended = [pure |-> TRUE, rows |-> <<>>]
    /\ config = GoodConfig
    /\ daily = IdleDaily
    /\ calls = <<>>
    /\ answers = NoAnswers
    /\ weekly = IdleWeekly
    /\ outbox = <<>>
    /\ runs = NoRuns

CallScrape ==
    /\ last.op = "input"
    /\ last' = [last EXCEPT !.op = "scrape",
                            !.ret = ScrapeRegulations(last.listing).df,
                            !.raised = ScrapeRegulations(last.listing).raised]
    /\ UNCHANGED <<today, file, appended, config, daily, calls, answers, weekly, outbox,
                   runs>>

NextScrape == CallScrape

SpecScrape == InitScrape /\ [][NextScrape]_vars

(***************************************************************************)
(* One weekly run (send_weekly_report_flow) in an environment and over a   *)
(* store of any kind, after at most one direct read of the store.          *)
(***************************************************************************)
TestModes ==
    {Unset, <<>>, T_true, <<"T", "R", "U", "E">>, <<"T", "r", "u", "e">>, T_one, T_yes,
     <<"Y", "E", "S">>, T_false, <<"0">>, <<"o", "n">>, <<" ">> \o T_true}

Recipients ==
    {Unset, <<"a", ",", "b">>, <<" ", "a", " ", ",", " ", "b", " ">>, <<"a", ",">>,
     <<" ">>, <<"f", ",", "a">>}

Environments ==
    [openai_api_key : {"key"}, relevance_threshold : {RelevanceThreshold},
     email_from : {Unset, <<"f">>}, email_to : Recipients, email_password : {"", "pw"},
     test_mode : TestModes]

WeeklyFiles ==
    {NoFile, [state |-> "garbage", ws |-> <<>>], [state |-> "nosheet", ws |-> <<>>]}
    \cup {NewSheet(rows) : rows \in SeqsUpTo(SaveRows, MaxBatch)}

InitWeekly ==
    /\ today = Day0
    /\ file \in WeeklyFiles
    /\ last = NoCall
    /\ appended = [pure |-> file = NoFile, rows |-> <<>>]
    /\ config \in Environments
    /\ daily = IdleDaily
    /\ calls = <<>>
    /\ answers = NoAnswers
    /\ weekly = IdleWeekly
    /\ outbox = <<>>
    /\ runs = NoRuns

NextWeekly ==
    \/ last.op = "none" /\ runs.weekly = 0 /\ CallLoad
    \/ last.op = "none" /\ runs.weekly = 0 /\ CallGetRecent
    \/ WeeklyRead(1)
    \/ WeeklySend

SpecWeekly == InitWeekly /\ [][NextWeekly]_vars

(***************************************************************************)
(* Claims about the storage functions (checked under SpecStore).           *)
(***************************************************************************)
DateOf(r) == ToDatetime(r.Fecha)

\* two digits of day, two of month, four of year, and a day that exists
WellFormedDate(s) == Len(s) = 10 /\ ToDatetime(s) # NaT

\* a row with its date as a date: rows compared whatever the spelling of the date
AsDated(df) == [i \in DOMAIN df |-> [df[i] EXCEPT !.Fecha = ToDatetime(df[i].Fecha)]]

RowsInWindow(df, tdy, days) ==
    SelectIdx(df, {i \in DOMAIN df : DateOf(df[i]) # NaT /\ tdy - (days - 1) <= DateOf(df[i])
                                      /\ DateOf(df[i]) <= tdy})

\* C1: on a store whose rows all have well-formed DD/MM/YYYY dates,
\* get_recent_regulations(days = D), D >= 1, returns exactly the rows dated in
\* [today - (D - 1), today], each as often as the store holds it, in ascending
\* order of date.
C1_WindowedRead ==
    (/\ last.op = "get_recent"
     /\ Readable(last.before)
     /\ \A i \in DOMAIN ReadExcel(last.before) :
            WellFormedDate(ReadExcel(last.before)[i].Fecha))
    => /\ ~last.raised
       /\ SameBag(last.ret, RowsInWindow(ReadExcel(last.before), today, last.days))
       /\ \A i \in 1..(Len(last.ret) - 1) : DateOf(last.ret[i]) <= DateOf(last.ret[i + 1])

\* C1 witness: a read that left a row out and returned two rows in an order
\* that is not their order in the file
C1_Witness ==
    /\ last.op = "get_recent"
    /\ Readable(last.before)
    /\ \A i \in DOMAIN ReadExcel(last.before) : WellFormedDate(ReadExcel(last.before)[i].Fecha)
    /\ Len(last.ret) >= 2
    /\ Len(last.ret) < Len(ReadExcel(last.before))
    /\ DateOf(last.ret[1]) < DateOf(last.ret[2])
    /\ \E i, j \in DOMAIN ReadExcel(last.before) :
          /\ i < j
          /\ ReadExcel(last.before)[i] = last.ret[2]
          /\ ReadExcel(last.before)[j] = last.ret[1]

\* C2: from an absent file, after save_regulations calls with non-empty
\* frames the sheet has one header row, in row 1, and its data rows are the
\* rows of the frames in the order they were handed over: the row count is the
\* sum of the frame lengths and no earlier row is overwritten or dropped.
C2_AppendKeepsRows ==
    (appended.pure /\ appended.rows # <<>>)
    => /\ file.state = "xlsx"
       /\ IsHeader(file.ws[1])
       /\ Cardinality({i \in DOMAIN file.ws : IsHeader(file.ws[i])}) = 1
       /\ Len(ReadExcel(file)) = Len(appended.rows)
       /\ ReadExcel(file) = appended.rows

\* C2 witness: a non-empty frame appended to a file that an earlier call created
C2_Witness ==
    /\ appended.pure
    /\ last.op = "save"
    /\ last.df # <<>>
    /\ Exists(last.before)
    /\ Len(appended.rows) > Len(last.df)

\* C3: after get_recent_regulations(days, archive_old=true) on an existing
\* non-empty store, the file holds exactly the rows dated in the window.
C3_ArchiveLeavesWindowOnly ==
    (/\ last.op = "get_recent"
     /\ last.archive
     /\ Readable(last.before)
     /\ ReadExcel(last.before) # <<>>)
    => /\ \A i \in DOMAIN ReadExcel(file) :
            /\ DateOf(ReadExcel(file)[i]) # NaT
            /\ today - (last.days - 1) <= DateOf(ReadExcel(file)[i])
            /\ DateOf(ReadExcel(file)[i]) <= today
       /\ SameBag(AsDated(ReadExcel(file)),
                  AsDated(RowsInWindow(ReadExcel(last.before), today, last.days)))

\* C4: a second get_recent_regulations(days, archive_old=true) right after a
\* first one, on the same day and with the same days, returns the same rows
\* and leaves the file as it is.
C4_ArchiveIdempotent ==
    [][(/\ last.op = "get_recent" /\ last.archive
        /\ last'.op = "get_recent" /\ last'.archive
        /\ last'.days = last.days
        /\ today' = today)
       => (SameBag(last'.ret, last.ret) /\ file' = file)]_vars

\* C4 witness: the second call, after a first call that rewrote the file,
\* returning rows
C4_Witness == last.repeat /\ last.ret # <<>> /\ file = last.before

(***************************************************************************)
(* Claim about the pipeline (checked under Spec).                          *)
(***************************************************************************)
\* C5: after any sequence of daily runs and weekly archiving reads, every
\* data row of the store has a Relevancia in ScoreMin..ScoreMax that is
\* strictly greater than the relevance_threshold of the runs.
C5_StoredScoresAboveThreshold ==
    \A i \in DOMAIN ReadExcel(file) :
        /\ ReadExcel(file)[i].Relevancia \in ScoreMin..ScoreMax
        /\ ReadExcel(file)[i].Relevancia > config.relevance_threshold

\* C5 witness: two daily runs on two days each saved a row, and a weekly read
\* of one day archived the store: the first row is gone, the second is left
C5_Witness ==
    /\ runs.daily = 2
    /\ daily.pc = "done"
    /\ daily.rel # <<>>
    /\ weekly.pc = "done"
    /\ weekly.archived
    /\ weekly.days = 1
    /\ today = Day0 + 1
    /\ Len(ReadExcel(file)) = 1
    /\ ReadExcel(file)[1].Fecha = Strftime(today)
    /\ ReadExcel(file)[1].Relevancia = config.relevance_threshold + 1

(***************************************************************************)
(* Claims about one daily run (checked under SpecDaily).                   *)
(***************************************************************************)
\* the run has classified a scraped frame
ClassifiedRun ==
    /\ daily.pc \in {"relevant", "done"}
    /\ daily.df # <<>>
    /\ Len(answers.cls) = Len(daily.df)

\* the run has returned after save_regulations
SavedRun == ClassifiedRun /\ daily.pc = "done" /\ daily.rc = 0 /\ daily.rel # <<>>

\* a classification request that failed: an exception, or a score the response
\* model rejects
Failed(a) == a.kind = "raise" \/ a.score < 0 \/ a.score > 100

\* the score classify_text gives the notice at row i of the scraped frame
ScoreGiven(i) == IF Failed(answers.cls[i]) THEN 0 ELSE answers.cls[i].score

\* the rows of the scraped frame that clear the threshold
Clearing == {i \in DOMAIN daily.df : ScoreGiven(i) > config.relevance_threshold}

\* the position in the result of the notice at row i, 0 when it is not there
PlaceOf(i) ==
    IF \E k \in DOMAIN daily.rel : daily.rel[k].Texto = daily.df[i].Texto
    THEN CHOOSE k \in DOMAIN daily.rel : daily.rel[k].Texto = daily.df[i].Texto
    ELSE 0

\* C6: classify_regulations returns exactly the notices whose score is
\* strictly greater than the threshold, by descending score, cut to the five
\* highest; the run appends at most five rows, and the result is empty when
\* no notice clears the threshold.
C6_TopAboveThreshold ==
    ClassifiedRun =>
        /\ Len(daily.rel) = Min(5, Cardinality(Clearing))
        /\ \A k \in DOMAIN daily.rel :
              \E i \in Clearing : /\ PlaceOf(i) = k
                                  /\ daily.rel[k].Relevancia = ScoreGiven(i)
        /\ \A k \in 1..(Len(daily.rel) - 1) :
              daily.rel[k].Relevancia >= daily.rel[k + 1].Relevancia
        /\ \A i \in Clearing :
              PlaceOf(i) = 0 => \A k \in DOMAIN daily.rel :
                                    daily.rel[k].Relevancia >= ScoreGiven(i)
        /\ (Clearing = {}) => (daily.rel = <<>> /\ file = NoFile)
        /\ SavedRun => (Len(ReadExcel(file)) = Len(daily.rel) /\ Len(ReadExcel(file)) <= 5)

\* C6 witness: seven notices, one scored exactly the threshold and six above
\* it with different scores; five were returned and saved
C6_Witness ==
    /\ SavedRun
    /\ Len(daily.df) = 7
    /\ Cardinality(Clearing) = 6
    /\ \E i \in DOMAIN daily.df : ScoreGiven(i) = config.relevance_threshold
    /\ Len(daily.rel) = 5
    /\ daily.rel[1].Relevancia > daily.rel[5].Relevancia
    /\ Len(ReadExcel(file)) = 5

\* the calls of function fn about the notice with text id
CallsAbout(fn, id) == {j \in DOMAIN calls : calls[j] = [fn |-> fn, text |-> id]}

\* C7: in one classify_regulations call classify_text is called once for
\* every input notice, summarize_text and create_title once each for every
\* returned record and never for a notice filtered out or cut, and every
\* classify_text call comes before every summarize_text or create_title call.
C7_CallsOncePerNotice ==
    ClassifiedRun =>
        /\ Len(calls) = Len(daily.df) + 2 * Len(daily.rel)
        /\ \A i \in DOMAIN daily.df :
              /\ Cardinality(CallsAbout("classify", daily.df[i].Texto)) = 1
              /\ Cardinality(CallsAbout("summarize", daily.df[i].Texto))
                    = (IF PlaceOf(i) # 0 THEN 1 ELSE 0)
              /\ Cardinality(CallsAbout("title", daily.df[i].Texto))
                    = (IF PlaceOf(i) # 0 THEN 1 ELSE 0)
        /\ \A j, k \in DOMAIN calls :
              (calls[j].fn = "classify" /\ calls[k].fn # "classify") => j < k

\* C7 witness: a frame with a notice under the threshold and a notice cut by
\* the truncation, neither of them summarized or titled
C7_Witness ==
    /\ ClassifiedRun
    /\ Len(daily.rel) = 5
    /\ \E i, j \in DOMAIN daily.df :
          /\ i \notin Clearing
          /\ j \in Clearing
          /\ PlaceOf(i) = 0
          /\ PlaceOf(j) = 0
          /\ CallsAbout("classify", daily.df[i].Texto) # {}
          /\ CallsAbout("classify", daily.df[j].Texto) # {}
          /\ CallsAbout("summarize", daily.df[i].Texto) = {}
          /\ CallsAbout("title", daily.df[j].Texto) = {}

\* C9: when the remote call of classify_text fails for a notice, classify_text
\* returns score 0 and reasoning "Error in processing", every notice of the
\* frame is still classified, those that clear the threshold are returned,
\* and the failed notice is neither in the result nor in the store.
C9_FailedClassificationDropped ==
    ClassifiedRun =>
        \A i \in DOMAIN daily.df :
            Failed(answers.cls[i]) =>
                /\ ClassifyText(answers.cls[i])
                      = [relevance_score |-> 0, reasoning |-> "Error in processing"]
                /\ \A j \in DOMAIN daily.df :
                      /\ calls[j] = [fn |-> "classify", text |-> daily.df[j].Texto]
                      /\ j \in Clearing => PlaceOf(j) # 0
                /\ PlaceOf(i) = 0
                /\ \A k \in DOMAIN ReadExcel(file) :
                      ReadExcel(file)[k].Enlace # daily.df[i].Enlace

\* C9 witness: the request for the first of two notices raised, the second
\* notice was returned and saved, under threshold 0
C9_Witness ==
    /\ SavedRun
    /\ config.relevance_threshold = 0
    /\ Len(daily.df) = 2
    /\ answers.cls[1].kind = "raise"
    /\ Len(daily.rel) = 1
    /\ daily.rel[1].Texto = daily.df[2].Texto
    /\ Len(ReadExcel(file)) = 1
    /\ ReadExcel(file)[1].Enlace = daily.df[2].Enlace

\* the summary, key points, title and category a record has after the answers
\* sum and tit to its requests
Enriched(r, sum, tit) ==
    /\ r.Resumen = (IF sum = "ok" THEN "resumen" ELSE "Error en resumen")
    /\ r.Puntos_Clave = (IF sum = "ok" THEN "k1; k2" ELSE "")
    /\ r.Titulo_Generado = (IF tit = "ok" THEN "titulo" ELSE "Titulo no disponible")
    /\ r.Categoria = (IF tit = "ok" THEN "categoria" ELSE "Sin categoria")

\* C10: when summarize_text or create_title raises for a notice of the top
\* subset, the record stays in the result with the placeholder values, the
\* other records are enriched as usual, and the run saves every record of the
\* result, the one with placeholders included (an empty text is an empty cell).
C10_FailedEnrichmentKept ==
    (ClassifiedRun /\ daily.rel # <<>>) =>
        /\ Len(daily.rel) = Min(5, Cardinality(Clearing))
        /\ \A k \in DOMAIN daily.rel :
              Enriched(daily.rel[k], answers.sum[daily.rel[k].Texto],
                       answers.tit[daily.rel[k].Texto])
        /\ SavedRun =>
              /\ Len(ReadExcel(file)) = Len(daily.rel)
              /\ \A k \in DOMAIN daily.rel :
                    /\ ReadExcel(file)[k].Enlace = daily.rel[k].Enlace
                    /\ ReadExcel(file)[k].Relevancia = daily.rel[k].Relevancia
                    /\ ReadExcel(file)[k].Resumen = daily.rel[k].Resumen
                    /\ ReadExcel(file)[k].Titulo_Generado = daily.rel[k].Titulo_Generado
                    /\ ReadExcel(file)[k].Categoria = daily.rel[k].Categoria
                    /\ ReadExcel(file)[k].Puntos_Clave
                          = (IF daily.rel[k].Puntos_Clave = "" THEN NaN
                             ELSE daily.rel[k].Puntos_Clave)

\* C10 witness: two records, the summary request of the first and the title
\* request of the second raised, both saved
C10_Witness ==
    /\ SavedRun
    /\ Len(daily.rel) = 2
    /\ answers.sum[daily.rel[1].Texto] = "raise"
    /\ answers.tit[daily.rel[1].Texto] = "ok"
    /\ answers.sum[daily.rel[2].Texto] = "ok"
    /\ answers.tit[daily.rel[2].Texto] = "raise"
    /\ ReadExcel(file)[1].Resumen = "Error en resumen"
    /\ ReadExcel(file)[1].Titulo_Generado = "titulo"
    /\ ReadExcel(file)[2].Resumen = "resumen"
    /\ ReadExcel(file)[2].Titulo_Generado = "Titulo no disponible"

(***************************************************************************)
(* Claim about empty inputs (checked under SpecStore).                     *)
(***************************************************************************)
\* C8: an empty input is a no-op that does not raise: save_regulations with
\* an empty frame neither creates nor changes the file; get_recent_regulations
\* on a sheet with only the header returns no row; classify_regulations on an
\* empty frame returns it without a remote call; generar_html_email_styled on
\* an empty frame returns the header and the closing tag, with no summary, no
\* record block and no remote call.
C8_EmptyInputNoOp ==
    /\ (last.op = "save" /\ last.df = <<>>) => (file = last.before /\ ~last.raised)
    /\ (last.op = "get_recent" /\ last.before = NewSheet(<<>>))
          => (last.ret = <<>> /\ ~last.raised /\ file = last.before)
    /\ (last.op = "classify" /\ last.df = <<>>)
          => (last.ret = <<>> /\ calls = <<>> /\ ~last.raised)
    /\ (last.op = "render" /\ last.df = <<>>)
          => (last.ret = <<HeaderBlock, CloseBlock>> /\ calls = <<>> /\ ~last.raised)

\* C8 witness: save_regulations was handed an empty frame while no file
\* existed, and none exists afterwards
C8_Witness ==
    /\ last.op = "save"
    /\ last.df = <<>>
    /\ last.before = NoFile
    /\ file = NoFile

(***************************************************************************)
(* Claims about the email service called directly (checked under           *)
(* SpecStore).                                                             *)
(***************************************************************************)
\* the executive summary request failed: an exception, or a content that is
\* empty once stripped
SummaryFailed == answers.llm \in {"raise", "", " "}

\* C11: for a non-empty frame, when the executive summary request raises or
\* returns an empty or whitespace-only content, the summary in the HTML is
\* exactly the local fallback for the same frame and top_n (the count of the
\* rows and the three best of them), the HTML still has the header, every
\* record block in row order and the closing tag, and nothing is raised.
C11_SummaryFallsBack ==
    (last.op = "render" /\ last.df # <<>> /\ SummaryFailed) =>
        /\ ~last.raised
        /\ Len(last.ret) = Len(last.df) + 3
        /\ last.ret[1] = HeaderBlock
        /\ <<last.ret[2]>> = GenerarResumenEjecutivoFallback(last.df, SummaryTop)
        /\ last.ret[2].by = "fallback"
        /\ last.ret[2].total = Len(last.df)
        /\ Len(last.ret[2].items) = Min(3, Len(last.df))
        /\ \A i \in DOMAIN last.df :
              /\ last.ret[i + 2].block = "record"
              /\ last.ret[i + 2].enlace = last.df[i].Enlace
              /\ last.ret[i + 2].fecha = last.df[i].Fecha
        /\ last.ret[Len(last.ret)] = CloseBlock

\* C11 witness: a frame of two rows or more rendered when the content came
\* back as spaces only
C11_Witness ==
    /\ last.op = "render"
    /\ Len(last.df) >= 2
    /\ answers.llm = " "
    /\ last.ret[2].by = "fallback"
    /\ last.ret[3].block = "record"
    /\ last.ret[4].block = "record"

(***************************************************************************)
(* Claim about build_top_resolutions_payload (checked under SpecPayload).  *)
(***************************************************************************)
\* the row of the frame that a payload row was taken from
SourceOf(r) == CHOOSE i \in DOMAIN last.df : last.df[i].Enlace = r.Enlace

\* the Relevancia values of a frame, in row order
ScoresOf(df) == [i \in DOMAIN df |-> df[i].Relevancia]

\* relevance a ranks at least as high as relevance b: a number before a cell
\* that is no number, a higher number before a lower one
RanksAtLeast(a, b) == b = NotNumber \/ (a # NotNumber /\ a >= b)

\* C12: build_top_resolutions_payload(df, top_n) returns min(top_n, len(df))
\* rows; with a Relevancia column they are the rows of highest relevance in
\* non-increasing order, rows without a number last (95, 88, 82, 76, 71 with
\* top_n = 3 give 95, 88, 82); without the column they are the first top_n
\* rows in input order; None or an empty frame gives an empty frame.
C12_TopPayload ==
    (last.op = "payload") =>
        IF last.none \/ last.df = <<>> THEN last.ret = <<>>
        ELSE
            /\ Len(last.ret) = Min(last.top_n, Len(last.df))
            /\ \A k \in DOMAIN last.ret :
                  \E i \in DOMAIN last.df : last.df[i].Enlace = last.ret[k].Enlace
            /\ \A k, l \in DOMAIN last.ret :
                  k # l => last.ret[k].Enlace # last.ret[l].Enlace
            /\ IF "Relevancia" \in DOMAIN last.df[1]
               THEN /\ \A k \in DOMAIN last.ret :
                          last.ret[k].Relevancia = last.df[SourceOf(last.ret[k])].Relevancia
                    /\ \A k \in 1..(Len(last.ret) - 1) :
                          RanksAtLeast(last.ret[k].Relevancia, last.ret[k + 1].Relevancia)
                    /\ \A i \in DOMAIN last.df :
                          (\A k \in DOMAIN last.ret : last.ret[k].Enlace # last.df[i].Enlace)
                          => \A k \in DOMAIN last.ret :
                                RanksAtLeast(last.ret[k].Relevancia, last.df[i].Relevancia)
                    /\ (last.df = SampleFrame /\ last.top_n = 3)
                          => ScoresOf(last.ret) = <<95, 88, 82>>
               ELSE \A k \in DOMAIN last.ret :
                        /\ last.ret[k].Enlace = last.df[k].Enlace
                        /\ "Relevancia" \notin DOMAIN last.ret[k]

\* C12 witness: three rows asked of a frame of four in which a cell without a
\* number comes first and the numbers are not in order; the cell is left out
C12_Witness ==
    /\ last.op = "payload"
    /\ ~last.none
    /\ Len(last.df) = 4
    /\ "Relevancia" \in DOMAIN last.df[1]
    /\ last.top_n = 3
    /\ ScoresOf(last.df) = <<NotNumber, 71, 95, 82>>
    /\ ScoresOf(last.ret) = <<95, 82, 71>>

(***************************************************************************)
(* Claim about the exit codes of the entry points (checked under           *)
(* SpecDaily).                                                             *)
(***************************************************************************)
\* C13: every run of scrape_regulations_task and of send_weekly_report_task
\* ends by returning 0 or 1 and no exception leaves the entry point; a run
\* whose configuration lacks a required credential returns 1.
C13_RunsReturnExitCode ==
    /\ daily.pc # "propagated"
    /\ weekly.pc # "propagated"
    /\ daily.pc = "done" => daily.rc \in {0, 1}
    /\ weekly.pc = "done" => weekly.rc \in {0, 1}
    /\ (daily.pc # "idle" /\ config.openai_api_key = "")
          => (daily.pc = "done" /\ daily.rc = 1)


\* C14: validate_config(config, require_email) raises exactly when
\* openai_api_key is empty, or require_email is true and email_from is empty,
\* email_password is empty, or test mode is off and email_to is empty; test
\* mode accepts an empty email_to, and without require_email no email field is
\* looked at.
C14_ValidateRaisesIff ==
    last.op = "validate" =>
        LET c == last.cfg
            emailMissing ==
                \/ Len(c.email_from) = 0
                \/ c.email_password = ""
                \/ c.test_mode = FALSE /\ Len(c.email_to) = 0
        IN  /\ last.raised <=> (c.openai_api_key = "" \/ (last.require_email /\ emailMissing))
            /\ (~last.require_email /\ c.openai_api_key # "") => ~last.raised
            /\ (c.test_mode /\ c.openai_api_key # "" /\ Len(c.email_from) > 0
                  /\ c.email_password # "") => ~last.raised

C14_Witness ==
    /\ last.op = "validate"
    /\ last.require_email
    /\ last.cfg.test_mode
    /\ last.cfg.email_to = <<>>
    /\ ~last.raised

\* the texts of TEST_MODE that turn test mode on
OnTexts ==
    {<<"t", "r", "u", "e">>, <<"T", "R", "U", "E">>, <<"T", "r", "u", "e">>, <<"1">>,
     <<"y", "e", "s">>, <<"Y", "E", "S">>}

\* the addresses listed in a text of EMAIL_TO
AddressesOf(text) ==
    IF text \in {<<"a", ",", "b">>, <<" ", "a", " ", ",", " ", "b", " ">>}
    THEN <<<<"a">>, <<"b">>>>
    ELSE IF text = <<"a", ",">> THEN <<<<"a">>>>
    ELSE IF text = <<"f", ",", "a">> THEN <<<<"f">>, <<"a">>>>
    ELSE <<>>

\* C15: with TEST_MODE 'true', '1' or 'yes' in any letter case every weekly
\* mail is addressed to EMAIL_FROM only and to no other address of EMAIL_TO;
\* with any other value, or unset, the recipients are the addresses of
\* EMAIL_TO.
C15_TestModeRecipients ==
    \A i \in DOMAIN outbox :
        LET to == outbox[i].to
            listed == AddressesOf(config.email_to)
        IN  IF config.test_mode \in OnTexts
            THEN /\ to = <<config.email_from>>
                 /\ \A j \in DOMAIN listed :
                        listed[j] # config.email_from
                            => ~\E k \in DOMAIN to : to[k] = listed[j]
            ELSE to = listed

C15_Witness ==
    /\ outbox # <<>>
    /\ config.test_mode = <<"T", "R", "U", "E">>
    /\ config.email_to = <<"a", ",", "b">>
    /\ outbox[1].to = <<<<"f">>>>

\* C16: when the spreadsheet file does not exist, load_regulations and
\* get_recent_regulations (archiving or not) return an empty frame, do not
\* raise and do not create the file.
C16_AbsentFileReadsEmpty ==
    (last.op \in {"load", "get_recent"} /\ last.before = NoFile) =>
        /\ last.ret = <<>>
        /\ ~last.raised
        /\ file = NoFile

C16_Witness ==
    /\ last.op = "get_recent"
    /\ last.archive
    /\ last.before = NoFile
    /\ last.ret = <<>>
    /\ file = NoFile

\* the file exists and is not a spreadsheet
Garbage(f) == f.state = "garbage"

\* C17: when the file exists but is not a valid spreadsheet, load_regulations
\* and get_recent_regulations raise and leave the file as it was, and a
\* weekly run returns 1 without sending any mail.
C17_UnreadableFileRaises ==
    /\ (last.op \in {"load", "get_recent"} /\ Garbage(last.before)) =>
            /\ last.raised
            /\ file = last.before
    /\ (runs.weekly > 0 /\ Garbage(file)) =>
            /\ weekly.pc = "done"
            /\ weekly.rc = 1
            /\ outbox = <<>>

C17_Witness ==
    /\ last.op = "get_recent"
    /\ last.raised
    /\ Garbage(file)
    /\ weekly.pc = "done"
    /\ weekly.recipient # <<>>
    /\ weekly.rc = 1
    /\ outbox = <<>>

\* C18: in scrape_regulations a detail page that fails skips only its notice:
\* the result holds exactly the notices whose detail page succeeded, in the
\* order of the listing, each with the publication date of the listing; a
\* listing page that fails, or that lacks the date markup, raises and no
\* notice is returned.
C18_ScrapeSkipsFailedDetails ==
    last.op = "scrape" =>
        LET l == last.listing
            got == last.ret
        IN  IF l.ok /\ l.fecha # NoDateMarkup
            THEN /\ ~last.raised
                 /\ {got[k].Enlace : k \in DOMAIN got} = {i \in DOMAIN l.details : l.details[i]}
                 /\ \A j, k \in DOMAIN got : j < k => got[j].Enlace < got[k].Enlace
                 /\ \A k \in DOMAIN got : got[k].Fecha = FormatDate(l.fecha)
            ELSE last.raised /\ got = <<>>

C18_Witness ==
    /\ last.op = "scrape"
    /\ last.listing.details = <<TRUE, FALSE, TRUE>>
    /\ Len(last.ret) = 2
    /\ last.ret[2].Enlace = 3

\* the rows of a frame carry DD/MM/YYYY dates inside the window of the days
\* up to tdy
DatedInWindow(df, tdy, days) ==
    \A i \in DOMAIN df :
        /\ WellFormedDate(df[i].Fecha)
        /\ tdy - (days - 1) <= DateOf(df[i])
        /\ DateOf(df[i]) <= tdy

\* C19: save_regulations followed by get_recent_regulations(days=7) returns
\* every saved record whose DD/MM/YYYY date lies in the window, with the same
\* Relevancia and the same date text, and the rows returned are ordered by
\* date ascending.
C19_RoundTrip ==
    [][(/\ last.op = "save"
        /\ ~last.raised
        /\ last.df # <<>>
        /\ DatedInWindow(last.df, today, 7)
        /\ last'.op = "get_recent"
        /\ last'.days = 7)
       => /\ ~last'.raised
          /\ \A i \in DOMAIN last.df :
                \E k \in DOMAIN last'.ret :
                    /\ last'.ret[k].Enlace = last.df[i].Enlace
                    /\ last'.ret[k].Relevancia = last.df[i].Relevancia
                    /\ last'.ret[k].Fecha = last.df[i].Fecha
          /\ \A j, k \in DOMAIN last'.ret :
                j < k => DateOf(last'.ret[j]) <= DateOf(last'.ret[k])]_vars

C19_Witness ==
    /\ last.op = "get_recent"
    /\ last.days = 7
    /\ appended.pure
    /\ appended.rows = <<StoreRow(D_01_03, 95, 3), StoreRow(D_29_02, 71, 2)>>
    /\ last.ret = <<StoreRow(D_29_02, 71, 2), StoreRow(D_01_03, 95, 3)>>

\* every stored row whose date parses lies inside the window
AllParsableInWindow(f, tdy, days) ==
    \A i \in DOMAIN ReadExcel(f) :
        LET d == DateOf(ReadExcel(f)[i])
        IN  d # NaT => (tdy - (days - 1) <= d /\ d <= tdy)

\* C20: get_recent_regulations with archive_old=false never modifies the
\* file, and with archive_old=true it leaves the file untouched when every
\* row with a parsable date lies inside the window.
C20_ReadLeavesFile ==
    last.op = "get_recent" =>
        /\ ~last.archive => file = last.before
        /\ (last.archive /\ AllParsableInWindow(last.before, today, last.days))
              => file = last.before

C20_Witness ==
    /\ last.op = "get_recent"
    /\ last.archive
    /\ \E i \in DOMAIN ReadExcel(last.before) : DateOf(ReadExcel(last.before)[i]) = NaT
    /\ last.ret # <<>>
    /\ AllParsableInWindow(last.before, today, last.days)
    /\ file = last.before

\* the places of the record blocks of a rendered mail
RecordPlaces(html) == {i \in DOMAIN html : html[i].block = "record"}

\* C21: generar_html_email_styled emits, after the header and the summary
\* block, exactly one record block per input row, in the order of the input
\* rows, so that there are as many links as rows.
C21_OneBlockPerRow ==
    last.op = "render" =>
        LET html == last.ret
            n == Len(last.df)
            first == Len(html) - n
        IN  /\ Cardinality(RecordPlaces(html)) = n
            /\ RecordPlaces(html) = first..(Len(html) - 1)
            /\ html[1] = HeaderBlock
            /\ \A i \in 2..(first - 1) : html[i].block = "summary"
            /\ \A i \in 1..n :
                  /\ html[first + i - 1].enlace = last.df[i].Enlace
                  /\ html[first + i - 1].fecha = last.df[i].Fecha

C21_Witness ==
    /\ last.op = "render"
    /\ Len(last.df) >= 2
    /\ last.df[1].Relevancia < last.df[2].Relevancia
    /\ last.ret[3].block = "record"
    /\ last.ret[3].enlace = last.df[1].Enlace

\* the number of stored rows for the notice of a link published on a date
Copies(f, enlace, fecha) ==
    Cardinality({i \in DOMAIN ReadExcel(f) :
                    ReadExcel(f)[i].Enlace = enlace /\ ReadExcel(f)[i].Fecha = fecha})

\* C22: there is no duplicate detection on append: a daily run that saves a
\* notice adds a row for it even when the store holds one already, and the
\* only step that removes a copy is the eviction of rows outside the window.
C22_NoDuplicateDetection ==
    [][/\ (daily.pc = "relevant" /\ daily'.pc = "done" /\ daily'.rc = 0) =>
              \A i \in DOMAIN daily.rel :
                  Copies(file', daily.rel[i].Enlace, daily.rel[i].Fecha)
                      = Copies(file, daily.rel[i].Enlace, daily.rel[i].Fecha) + 1
       /\ \A i \in DOMAIN ReadExcel(file) :
              LET row == ReadExcel(file)[i]
              IN  Copies(file', row.Enlace, row.Fecha) < Copies(file, row.Enlace, row.Fecha)
                    => /\ runs'.weekly = runs.weekly + 1
                       /\ ~(/\ today - (weekly'.days - 1) <= ToDatetime(row.Fecha)
                            /\ ToDatetime(row.Fecha) <= today)]_vars

C22_Witness ==
    /\ runs.daily = 2
    /\ today = Day0
    /\ daily.pc = "done"
    /\ Len(ReadExcel(file)) = 2
    /\ ReadExcel(file)[1].Enlace = ReadExcel(file)[2].Enlace
    /\ ReadExcel(file)[1].Fecha = ReadExcel(file)[2].Fecha

\* C23: the archiving rewrite is not atomic: when the process is killed after
\* the rewrite has opened the file and before the new content is saved, the
\* store holds none of the in-window rows it held before the call.
C23_CrashLosesWindowRows ==
    (last.op = "archive" /\ last.pc = "crashed" /\ last.opened) =>
        /\ MustArchive(TRUE, Len(RowsInWindow(ReadExcel(last.before), today, last.days)),
                       Len(DropNaT(ReadExcel(last.before))))
        /\ \A i \in DOMAIN RowsInWindow(ReadExcel(last.before), today, last.days) :
              LET row == RowsInWindow(ReadExcel(last.before), today, last.days)[i]
              IN  Copies(file, row.Enlace, row.Fecha) = 0

C23_Witness ==
    /\ last.op = "archive"
    /\ last.pc = "crashed"
    /\ last.opened
    /\ appended = NoAppend
    /\ RowsInWindow(ReadExcel(last.before), today, last.days) # <<>>
    /\ ReadExcel(file) = <<>>

\* C26: without locking, a daily append that completes between the load of
\* the sheet and the overwrite of a concurrently running archiving read is
\* lost: once the rewrite has finished the store holds, for each appended
\* row dated inside the window, only the copies it held when the sheet was
\* read.
C26_ConcurrentAppendLost ==
    (last.op = "archive" /\ last.pc = "returned" /\ last.opened /\ appended.at = "loaded") =>
        /\ file = last.updated
        /\ \A i \in DOMAIN RowsInWindow(appended.rows, today, last.days) :
              LET row == RowsInWindow(appended.rows, today, last.days)[i]
              IN  Copies(file, row.Enlace, row.Fecha)
                      = Copies(last.before, row.Enlace, row.Fecha)

C26_Witness ==
    /\ last.op = "archive"
    /\ last.pc = "returned"
    /\ last.opened
    /\ appended.at = "loaded"
    /\ RowsInWindow(appended.rows, today, last.days) = appended.rows
    /\ \A i \in DOMAIN appended.rows :
          Copies(file, appended.rows[i].Enlace, appended.rows[i].Fecha) = 0
    /\ ReadExcel(file) # <<>>

\* C24: a failed run is retried as a whole: when a step of the daily or of
\* the weekly task has failed, the task is executed again while fewer than
\* 1 + 2 attempts were made, and never more than 3 attempts are made.
C24_FailedRunRetried ==
    /\ runs.daily <= 3
    /\ runs.weekly <= 3
    /\ (daily.pc = "done" /\ daily.rc = 1 /\ runs.daily < 3) => ENABLED DailyAttempt
    /\ (weekly.pc = "done" /\ weekly.rc = 1 /\ runs.weekly < 3) => ENABLED WeeklyAttempt

\* C25: the daily run writes the store at most once, as its last step and
\* after every classify, summarize and title call of the run: a step of the
\* run other than the save, whether it fails, finds no notice or finds no
\* relevant notice, leaves the file as it was, and the step that saves ends
\* the run and makes no call.
C25_DailyWritesLast ==
    [][daily' # daily =>
          IF daily.pc = "relevant"
          THEN /\ daily'.pc = "done"
               /\ calls' = calls
               /\ \A i \in DOMAIN daily.df : CallsAbout("classify", daily.df[i].Texto) # {}
          ELSE file' = file]_vars

C25_Witness ==
    /\ runs.daily = 2
    /\ daily.pc = "done"
    /\ daily.rc = 0
    /\ daily.df # <<>>
    /\ daily.rel = <<>>
    /\ Len(ReadExcel(file)) = 1

\* the number of stored rows for a link whose date parses to a day
CopiesOn(f, enlace, day) ==
    Cardinality({i \in DOMAIN ReadExcel(f) :
                    ReadExcel(f)[i].Enlace = enlace /\ DateOf(ReadExcel(f)[i]) = day})

\* C27: in the weekly run the eviction comes before the report is rendered
\* and sent: the read keeps every in-window row, a send that fails makes the
\* run return 1 with no mail and leaves the store as the read left it, and a
\* run on the same day with the same days after such a failure reports the
\* same rows.
C27_EvictionBeforeSend ==
    [][/\ runs'.weekly = runs.weekly + 1 =>
              \A i \in DOMAIN RowsInWindow(ReadExcel(file), today, weekly'.days) :
                  LET row == RowsInWindow(ReadExcel(file), today, weekly'.days)[i]
                  IN  CopiesOn(file', row.Enlace, DateOf(row))
                          = CopiesOn(file, row.Enlace, DateOf(row))
       /\ (weekly.pc = "report" /\ weekly'.pc = "done") =>
              /\ file' = file
              /\ weekly'.rc = 1 <=> outbox' = outbox
              /\ weekly'.rc \in {0, 1}
       /\ (/\ weekly.pc = "done" /\ weekly.rc = 1 /\ weekly.regs # <<>>
           /\ runs'.weekly = runs.weekly + 1
           /\ weekly'.days = weekly.days) =>
              /\ weekly'.pc = "report"
              /\ SameBag(weekly'.regs, weekly.regs)
              /\ file' = file]_vars

C27_Witness ==
    /\ runs.weekly = 2
    /\ weekly.pc = "report"
    /\ weekly.days = 1
    /\ weekly.regs # <<>>
    /\ outbox = <<>>
    /\ ~weekly.archived
    /\ Len(ReadExcel(file)) < Len(ReadExcel(last.before))

\* the environment lacks EMAIL_FROM, EMAIL_PASSWORD, or EMAIL_TO outside test mode
EmailSettingsMissing(env) ==
    \/ env.email_from \in {Unset, <<>>}
    \/ env.email_password = ""
    \/ env.test_mode \notin OnTexts /\ env.email_to \in {Unset, <<>>}

\* C28: a weekly run whose configuration fails validate_config with
\* require_email=True leaves the store file unchanged and sends no mail.
C28_InvalidConfigNoEffect ==
    [][(EmailSettingsMissing(config) /\ runs'.weekly = runs.weekly + 1) =>
          /\ file' = file
          /\ outbox' = outbox
          /\ outbox' = <<>>
          /\ weekly'.pc = "done"
          /\ weekly'.rc = 1]_vars

C28_Witness ==
    /\ runs.weekly = 1
    /\ last.op = "none"
    /\ config.email_password = ""
    /\ weekly.pc = "done"
    /\ weekly.rc = 1
    /\ weekly.days = 1
    /\ \E i \in DOMAIN ReadExcel(file) : ReadExcel(file)[i].Fecha = D_29_02
    /\ \E i \in DOMAIN ReadExcel(file) : ReadExcel(file)[i].Fecha = D_01_03

\* C29: whenever validate_config with require_email=True passes with test
\* mode off, the recipient list built from EMAIL_TO is not empty when
\* enviar_email is called.
C29_RecipientsNotEmpty ==
    (weekly.pc = "report" /\ config.test_mode \notin OnTexts) => weekly.recipient # <<>>

\* the rows of a frame, dates formatted as %d/%m/%Y
Formatted(df) == [i \in DOMAIN df |-> [df[i] EXCEPT !.Fecha = FormatDate(DateOf(df[i]))]]

\* C30: test mode changes the recipient only: a weekly run whose
\* configuration is valid, in test mode or not, leaves in the store the rows
\* of the window whenever a dated row lies outside it, and a run that finds
\* no row in the window does so too, sends no mail and returns 0.
C30_TestModeSameStoreEffect ==
    [][(/\ runs'.weekly = runs.weekly + 1
        /\ ~EmailSettingsMissing(config)
        /\ file.state = "xlsx"
        /\ ReadExcel(file) # <<>>) =>
          LET inwin == RowsInWindow(ReadExcel(file), today, weekly'.days)
              dated == SelectIdx(ReadExcel(file),
                                 {i \in DOMAIN ReadExcel(file) :
                                     DateOf(ReadExcel(file)[i]) # NaT})
          IN  /\ IF Len(inwin) < Len(dated)
                 THEN ReadExcel(file') = Formatted(inwin) /\ file'.state = "xlsx"
                 ELSE file' = file
              /\ inwin = <<>> =>
                    /\ weekly'.pc = "done"
                    /\ weekly'.rc = 0
                    /\ outbox' = outbox]_vars

C30_Witness ==
    /\ runs.weekly = 1
    /\ last.op = "none"
    /\ config.test_mode = <<"Y", "E", "S">>
    /\ weekly.archived
    /\ weekly.pc = "done"
    /\ weekly.rc = 0
    /\ outbox = <<>>
    /\ file.state = "xlsx"
    /\ ReadExcel(file) = <<>>

====
